---- MODULE Spec2Model ----
(***************************************************************************)
(* Model of mightybadger-rs: the panic-safe configuration store            *)
(* (src/src/config.rs), the context propagator (src/src/context.rs) and    *)
(* the report pipeline (src/src/lib.rs, src/src/payload.rs) with the       *)
(* collector of the tests (src/mightybadger-test-server).                  *)
(*                                                                         *)
(* Option<T> is modelled as a sequence of length at most one: None is <<>> *)
(* and Some(x) is <<x>>.  A std::sync::RwLock<Config> is a record holding  *)
(* the protected data, the thread that holds the write lock (0 for none)   *)
(* and the poison flag; the read locks of CONFIG are the read guards the   *)
(* threads hold.                                                           *)
(***************************************************************************)
EXTENDS Integers, Sequences, FiniteSets, TLC

VARIABLES
    CONFIG,        \* static ref CONFIG: RwLock<Config>
    CONFIG_PROXY,  \* static ref CONFIG_PROXY: RwLock<Config>
    pc,            \* per thread: where the thread is inside configure / read_config
    script,        \* per thread: the mutator (closure) passed to configure
    ip,            \* per thread: next statement of the running mutator
    guards,        \* per thread: the ConfigReadGuards it holds
    pre,           \* per thread: CONFIG's data when the thread took the proxy lock
    last,          \* how the call that ended last ended
    applied,       \* the mutators whose result was published, in publication order
    nconf,         \* number of configure calls started
    environ,       \* the process environment (HONEYBADGER_* variables)
    policy,        \* the RwLock's priority policy (platform dependent)
    scoped,        \* per thread: SCOPED_CONTEXT's current binding
    frames,        \* per thread: the bindings saved by the active `with` calls
    dflt,          \* per thread: DEFAULT_CONTEXT
    bound,         \* per thread: the values passed to the active `with` calls
    before,        \* per thread: what get() returned right before each active `with`
    touched,       \* per thread: whether set/unset ran inside each active `with`
    recent,        \* per thread: the most recent set or unset call
    cevent,        \* the last operation on the context, and what get() returned
    INSTALL_ONCE,  \* static INSTALL_ONCE: Once, and old_hook while its closure runs
    HOOK,          \* the panic hook: the functions a panic calls, in call order
    resume,        \* per thread: where the thread goes on when its report attempt ends
    attempt,       \* per thread: the report attempt under way (notify_either's locals)
    requests,      \* per thread: the requests its latest report attempt handed to the transport
    network,       \* how the transport call to an endpoint other than the collector ends
    outcome,       \* the result of the report attempt that ended last
    argument,      \* the argument of the function of the report assembly applied
    returned,      \* what that function returned
    tasks,         \* per request of the gotham server: where its handler future is
    error_data,    \* the test collector's data: Arc<RwLock<ErrorData>>
    conns,         \* per connection to the test collector: its request and how far it is served
    server         \* sync::TestServer: its owner, its fields, its thread and the server task

cfgVars == <<CONFIG, CONFIG_PROXY, pc, script, ip, guards, pre, last, applied,
             nconf, environ, policy>>
ctxVars == <<scoped, frames, dflt, bound, before, touched, recent, cevent>>
repVars == <<INSTALL_ONCE, HOOK, resume, attempt, requests, network, outcome>>
fnVars == <<argument, returned>>
srvVars == <<error_data, conns, server>>
extVars == <<tasks, srvVars>>
vars == <<cfgVars, ctxVars, repVars, fnVars, extVars>>

----------------------------------------------------------------------------
(* Bounds *)

NumThreads == 2
MaxConfigures == 2
MaxGuards == 1
MaxWiths == 2

Threads == 1 .. NumThreads

----------------------------------------------------------------------------
(* Option<T> *)

None == <<>>
Some(x) == <<x>>
is_none(o) == o = <<>>
is_some(o) == o # <<>>
unwrap(o) == o[1]

----------------------------------------------------------------------------
(* Config, ConnectionConfig, RequestConfig and their Default *)

ConnectionConfigDefault == [secure |-> None, host |-> None, port |-> None]

RequestConfigDefault == [filter_keys |-> None]

ConfigDefault ==
    [api_key |-> None, env |-> None, report_data |-> None, root |-> None,
     revision |-> None, hostname |-> None,
     connection |-> ConnectionConfigDefault,
     request |-> RequestConfigDefault]

----------------------------------------------------------------------------
(* Strings.  A String is a sequence of one-character strings, so that the  *)
(* conversions of configure_from_env (parse, eq_ignore_ascii_case, split,  *)
(* trim, to_string_lossy) are computed and not assumed.  An OsString may   *)
(* also hold the token BadByte, a byte sequence that is not valid UTF-8.   *)

BadByte == "<bad>"
ReplacementChar == "<U+FFFD>"

S_foo == <<"f", "o", "o">>
S_staging == <<"s", "t", "a", "g", "i", "n", "g">>
S_production == <<"p", "r", "o", "d", "u", "c", "t", "i", "o", "n">>
S_abcd1234 == <<"a", "b", "c", "d", "1", "2", "3", "4">>

Digits == {"0", "1", "2", "3", "4", "5", "6", "7", "8", "9"}

DigitVal(c) ==
    CASE c = "0" -> 0 [] c = "1" -> 1 [] c = "2" -> 2 [] c = "3" -> 3
      [] c = "4" -> 4 [] c = "5" -> 5 [] c = "6" -> 6 [] c = "7" -> 7
      [] c = "8" -> 8 [] c = "9" -> 9

to_ascii_lowercase(c) ==
    CASE c = "T" -> "t" [] c = "R" -> "r" [] c = "U" -> "u" [] c = "E" -> "e"
      [] c = "N" -> "n" [] c = "O" -> "o" [] c = "Y" -> "y" [] c = "S" -> "s"
      [] OTHER -> c

eq_ignore_ascii_case(s, t) ==
    /\ Len(s) = Len(t)
    /\ \A i \in 1 .. Len(s) : to_ascii_lowercase(s[i]) = to_ascii_lowercase(t[i])

to_string_lossy(os) ==
    [i \in 1 .. Len(os) |-> IF os[i] = BadByte THEN ReplacementChar ELSE os[i]]

RECURSIVE DecimalValue(_)
DecimalValue(s) ==
    IF s = <<>> THEN 0
    ELSE 10 * DecimalValue(SubSeq(s, 1, Len(s) - 1)) + DigitVal(s[Len(s)])

U16_MAX == 65535

(* <u16 as FromStr>::from_str(s).ok(): an optional "+", then one or more   *)
(* decimal digits, and no overflow.                                        *)
parse_u16(s) ==
    LET digits == IF s # <<>> /\ s[1] = "+" THEN Tail(s) ELSE s
    IN  IF digits = <<>> \/ \E i \in 1 .. Len(digits) : digits[i] \notin Digits
        THEN None
        ELSE IF DecimalValue(digits) > U16_MAX THEN None
        ELSE Some(DecimalValue(digits))

RECURSIVE trim_start(_)
trim_start(s) == IF s # <<>> /\ s[1] = " " THEN trim_start(Tail(s)) ELSE s

RECURSIVE trim_end(_)
trim_end(s) ==
    IF s # <<>> /\ s[Len(s)] = " " THEN trim_end(SubSeq(s, 1, Len(s) - 1)) ELSE s

trim(s) == trim_end(trim_start(s))

(* s.split(","): the pieces between the commas; the empty string gives one *)
(* empty piece.                                                            *)
RECURSIVE split_comma(_, _)
split_comma(s, piece) ==
    IF s = <<>> THEN <<piece>>
    ELSE IF s[1] = "," THEN <<piece>> \o split_comma(Tail(s), <<>>)
    ELSE split_comma(Tail(s), Append(piece, s[1]))

----------------------------------------------------------------------------
(* configure_from_env: the four setters and the closure passed to configure *)

EnvNames ==
    {"HONEYBADGER_API_KEY", "HONEYBADGER_ENV", "HONEYBADGER_REPORT_DATA",
     "HONEYBADGER_ROOT", "HONEYBADGER_REVISION", "HONEYBADGER_HOSTNAME",
     "HONEYBADGER_CONNECTION_SECURE", "HONEYBADGER_CONNECTION_HOST",
     "HONEYBADGER_CONNECTION_PORT", "HONEYBADGER_REQUEST_FILTER_KEYS"}

(* env::var_os(name) decoded: None when the variable is unset.             *)
var_string(var) == IF is_none(var) THEN None ELSE Some(to_string_lossy(unwrap(var)))

(* Mutant: the environment always wins.                                   *)
set_string_always(entry, var) == var_string(var)

set_string(entry, var) ==
    IF is_none(entry) THEN var_string(var) ELSE entry

set_parseable(entry, var) ==
    IF is_none(entry)
    THEN IF is_none(var_string(var)) THEN None
         ELSE parse_u16(unwrap(var_string(var)))
    ELSE entry

TrueWords == {<<"t", "r", "u", "e">>, <<"t">>, <<"1">>}

set_bool(entry, var) ==
    IF is_none(entry)
    THEN IF is_none(var_string(var)) THEN None
         ELSE Some(\E t \in TrueWords :
                      eq_ignore_ascii_case(unwrap(var_string(var)), t))
    ELSE entry

set_string_array(entry, var) ==
    IF is_none(entry)
    THEN IF is_none(var_string(var)) THEN None
         ELSE LET pieces == split_comma(unwrap(var_string(var)), <<>>)
              IN  Some([i \in 1 .. Len(pieces) |-> trim(pieces[i])])
    ELSE entry

(* The closure of configure_from_env applied to the view `config` under    *)
(* the environment `e`.                                                    *)
from_env(config, e) ==
    [api_key |-> set_string(config.api_key, e["HONEYBADGER_API_KEY"]),
     env |-> set_string(config.env, e["HONEYBADGER_ENV"]),
     report_data |-> set_bool(config.report_data, e["HONEYBADGER_REPORT_DATA"]),
     root |-> set_string(config.root, e["HONEYBADGER_ROOT"]),
     revision |-> set_string(config.revision, e["HONEYBADGER_REVISION"]),
     hostname |-> set_string(config.hostname, e["HONEYBADGER_HOSTNAME"]),
     connection |->
        [secure |-> set_bool(config.connection.secure,
                             e["HONEYBADGER_CONNECTION_SECURE"]),
         host |-> set_string(config.connection.host,
                             e["HONEYBADGER_CONNECTION_HOST"]),
         port |-> set_parseable(config.connection.port,
                                e["HONEYBADGER_CONNECTION_PORT"])],
     request |->
        [filter_keys |-> set_string_array(config.request.filter_keys,
                                          e["HONEYBADGER_REQUEST_FILTER_KEYS"])]]

(* The environments the model runs under.                                  *)
EnvUnset == [n \in EnvNames |-> None]

EnvTypical ==
    [EnvUnset EXCEPT
        !["HONEYBADGER_API_KEY"] = Some(<<"k", "1">>),
        !["HONEYBADGER_ENV"] = Some(<<"t", "e", "s", "t">>),
        !["HONEYBADGER_REPORT_DATA"] = Some(<<"T", "r", "u", "e">>),
        !["HONEYBADGER_CONNECTION_SECURE"] = Some(<<"n", "o">>),
        !["HONEYBADGER_CONNECTION_HOST"] = Some(<<"h">>),
        !["HONEYBADGER_CONNECTION_PORT"] = Some(<<"+", "8", "0">>),
        !["HONEYBADGER_REQUEST_FILTER_KEYS"] = Some(<<"a", ",", " ", "b", " ">>)]

EnvOdd ==
    [EnvUnset EXCEPT
        !["HONEYBADGER_API_KEY"] = Some(<<"k", BadByte>>),
        !["HONEYBADGER_REPORT_DATA"] = Some(<<"y", "e", "s">>),
        !["HONEYBADGER_ROOT"] = Some(<<"/">>),
        !["HONEYBADGER_CONNECTION_SECURE"] = Some(<<"1">>),
        !["HONEYBADGER_CONNECTION_PORT"] = Some(<<"7", "0", "0", "0", "0">>),
        !["HONEYBADGER_REQUEST_FILTER_KEYS"] = Some(<<>>)]

Environments == {EnvUnset, EnvTypical, EnvOdd}

----------------------------------------------------------------------------
(* The mutators passed to configure: the closures of the documentation and *)
(* of the tests of config.rs, statement by statement.                      *)

SetEnv(v) == [op |-> "set_env", val |-> v]
SetApiKey(v) == [op |-> "set_api_key", val |-> v]
SetOthers == [op |-> "set_others", val |-> None]
FromEnv == [op |-> "from_env", val |-> None]
ReadConfig == [op |-> "read_config", val |-> None]
Panic == [op |-> "panic", val |-> None]
Configure == [op |-> "configure", val |-> None]

Mutators == {"set_two", "set_others", "panics", "nested", "from_env"}

Script(m) ==
    CASE m = "set_two" ->
            <<SetApiKey(S_abcd1234), ReadConfig, SetEnv(S_production)>>
      [] m = "set_others" -> <<SetOthers>>
      [] m = "panics" -> <<SetEnv(S_foo), Panic>>
      [] m = "nested" -> <<SetEnv(S_staging), Configure>>
      [] m = "from_env" -> <<FromEnv>>

(* A mutator that sets every field the other mutators leave alone.         *)
OthersSet(config) ==
    [config EXCEPT
        !.report_data = Some(FALSE),
        !.root = Some(<<"/", "a">>),
        !.revision = Some(<<"r">>),
        !.hostname = Some(<<"h", "0">>),
        !.connection = [secure |-> Some(TRUE), host |-> Some(<<"c">>),
                        port |-> Some(8080)],
        !.request = [filter_keys |-> Some(<<S_foo>>)]]

(* One assignment statement of a mutator, applied to its view.             *)
Assign(stmt, config, e) ==
    CASE stmt.op = "set_env" -> [config EXCEPT !.env = Some(stmt.val)]
      [] stmt.op = "set_api_key" -> [config EXCEPT !.api_key = Some(stmt.val)]
      [] stmt.op = "set_others" -> OthersSet(config)
      [] stmt.op = "from_env" -> from_env(config, e)
      [] OTHER -> config

Assigns == {"set_env", "set_api_key", "set_others", "from_env"}

----------------------------------------------------------------------------
(* std::sync::RwLock as configure and read_config use it                   *)

NoThread == 0

RwLockNew(data) == [data |-> data, writer |-> NoThread, poisoned |-> FALSE]

(* The read locks of CONFIG: one per ConfigReadGuard alive.                *)
Readers ==
    LET RECURSIVE Sum(_)
        Sum(S) == IF S = {} THEN 0
                  ELSE LET t == CHOOSE x \in S : TRUE
                       IN  Len(guards[t]) + Sum(S \ {t})
    IN  Sum(Threads)

(* Mutant: configure asks for the write lock of CONFIG before it runs the  *)
(* mutator, as a plain RwLock<Config> would.                               *)
WriterWaitingSinceCall ==
    \E u \in Threads : pc[u] \in {"cfg_run", "cfg_deadlock", "cfg_publish"}

(* A writer blocked in CONFIG.write(): only replace_config takes that lock. *)
WriterWaiting == \E u \in Threads : pc[u] = "cfg_publish"

(* Mutant: read_config takes the lock that configure holds while the      *)
(* mutator runs.                                                           *)
ReadLockOfProxy ==
    /\ CONFIG_PROXY.writer = NoThread
    /\ CONFIG.writer = NoThread

(* CONFIG.read() returns: no writer holds the lock and, on a platform      *)
(* whose lock prefers writers, no writer waits for it.                     *)
ReadLockFree ==
    /\ CONFIG.writer = NoThread
    /\ policy = "prefer_writers" => ~WriterWaiting

(* Mutant: read_config reads the proxy copy instead of CONFIG.             *)
ReadValueOfProxy == CONFIG_PROXY.data

(* What the guard returned by read_config dereferences to.                 *)
ReadValue == CONFIG.data

(* Mutant: the publish step does not wait for the read guards.            *)
WriteLockIgnoresReaders == CONFIG.writer = NoThread

(* CONFIG.write() returns: nobody holds the lock in either mode.           *)
WriteLockFree == CONFIG.writer = NoThread /\ Readers = 0

(* Mutant: configure calls are not serialized by the proxy lock.          *)
ProxyLockIgnored == TRUE

(* CONFIG_PROXY.write() returns: no other configure holds the proxy.       *)
ProxyLockFree == CONFIG_PROXY.writer = NoThread

Guard(scope) == [scope |-> scope, seen |-> ReadValue]

DropScope(gs, scope) == SelectSeq(gs, LAMBDA g : g.scope # scope)

RemoveAt(seq, i) == SubSeq(seq, 1, i - 1) \o SubSeq(seq, i + 1, Len(seq))

----------------------------------------------------------------------------
(* configure, replace_config and read_config                               *)

(* replace_config(config_proxy.clone()): the value stored into CONFIG.     *)
Published(proxy) == proxy

(* Mutant: the rollback resets the proxy to Config::default().            *)
RolledBackToDefault(config, proxy) == ConfigDefault

(* Mutant: the rollback is left out.                                      *)
NotRolledBack(config, proxy) == proxy

(* config_proxy.clone_from(&config): the proxy after the rollback.         *)
RolledBack(config, proxy) == config

(* Mutant: the proxy guard is dropped by the unwinding of resume_unwind.   *)
ProxyDroppedWhileUnwinding == FALSE

(* mem::drop(config_proxy) comes before resume_unwind(e): the write guard  *)
(* of CONFIG_PROXY is released while the thread is not panicking.          *)
ProxyDroppedBeforeResume == TRUE

Stmt(t) == Script(script[t])[ip[t]]

InMutator(t) == pc[t] = "cfg_run" /\ ip[t] <= Len(Script(script[t]))

Goto(t, label) == pc' = [pc EXCEPT ![t] = label]

(* The call returns to (or unwinds into) its caller; the thread's record   *)
(* of the call is cleared.                                                 *)
Finish(t, how) ==
    /\ Goto(t, "idle")
    /\ last' = how
    /\ ip' = [ip EXCEPT ![t] = 1]
    /\ pre' = [pre EXCEPT ![t] = ConfigDefault]
    /\ script' = [script EXCEPT ![t] = "none"]

----------------------------------------------------------------------------
(* lib.rs: what a report attempt computes                                  *)

S_test == <<"t", "e", "s", "t">>
S_Test == <<"T", "e", "s", "t">>
S_development == <<"d", "e", "v", "e", "l", "o", "p", "m", "e", "n", "t">>
S_cucumber == <<"c", "u", "c", "u", "m", "b", "e", "r">>
S_abcdef == <<"a", "b", "c", "d", "e", "f">>
S_localhost == <<"1", "2", "7", ".", "0", ".", "0", ".", "1">>
S_api_honeybadger_io ==
    <<"a", "p", "i", ".", "h", "o", "n", "e", "y", "b", "a", "d", "g", "e", "r",
      ".", "i", "o">>
S_panic_test == <<"p", "a", "n", "i", "c", " ", "t", "e", "s", "t">>
S_boom == <<"b", "o", "o", "m">>
S_BoxAny == <<"B", "o", "x", "<", "A", "n", "y", ">">>

unwrap_or(o, d) == IF is_some(o) THEN unwrap(o) ELSE d

(* What a thread panics with: a String (panic! with arguments), a          *)
(* &'static str (panic! with a literal) or any other value.                *)
PanicPayload(kind, text) == [api |-> "panic", kind |-> kind, text |-> text]

PanicPayloads ==
    {PanicPayload("String", S_boom), PanicPayload("str", S_panic_test),
     PanicPayload("other", <<>>)}

(* The errors handed to notify and notify_std_error.                       *)
Errors ==
    {[api |-> "notify", kind |-> "Fail", text |-> S_boom],
     [api |-> "notify_std_error", kind |-> "Error", text |-> S_panic_test]}

(* Mutant: only a &'static str payload is recognised.                      *)
PanicNewStrOnly(payload) ==
    IF payload.kind = "str" THEN payload.text ELSE S_BoxAny

(* Panic::new(panic_info).message                                          *)
PanicNew(payload) ==
    IF payload.kind = "String" THEN payload.text
    ELSE IF payload.kind = "str" THEN payload.text
    ELSE S_BoxAny

(* error.to_string(): Panic displays its message, an error its own text.   *)
Message(error) == IF error.api = "panic" THEN PanicNew(error) ELSE error.text

ExcludedEnvs == {S_test, S_development, S_cucumber}

(* Mutant: the environment name decides before the explicit flag.          *)
report_data_env_first(config) ==
    /\ unwrap_or(config.env, <<>>) \notin ExcludedEnvs
    /\ unwrap_or(config.report_data, TRUE)

(* notify_internal: let report_data = ...                                  *)
report_data(config) ==
    IF is_some(config.report_data) THEN unwrap(config.report_data)
    ELSE LET env == unwrap_or(config.env, <<>>)
         IN  \A s \in ExcludedEnvs : env # s

Ok(id) == [err |-> "none", id |-> Some(id)]

Err(e) == [err |-> e, id |-> None]

(* Mutant: the API key is looked up before the gate.                       *)
checks_key_first(config) ==
    IF is_none(config.api_key) THEN Err("NoApiKey")
    ELSE IF ~report_data(config) THEN Err("NoReportData")
    ELSE Ok(unwrap(config.api_key))

(* notify_internal up to the API key: the gate, then the key.              *)
checks(config) ==
    IF ~report_data(config) THEN Err("NoReportData")
    ELSE IF is_none(config.api_key) THEN Err("NoApiKey")
    ELSE Ok(unwrap(config.api_key))

(* report: the url the payload is posted to.                               *)
Url(config) ==
    [scheme |-> IF unwrap_or(config.connection.secure, TRUE) THEN "https"
                                                             ELSE "http",
     host |-> unwrap_or(config.connection.host, S_api_honeybadger_io),
     port |-> unwrap_or(config.connection.port, 443),
     path |-> "/v1/notices"]

(* Response bodies: a JSON object with an id that is the text of the given *)
(* UUID, one whose id is no UUID, one without id, and no JSON at all.      *)
IdText(uuid) == [uuid |-> TRUE, value |-> uuid]

NoUuidText == [uuid |-> FALSE, value |-> 0]

JsonBody(id) == [json |-> TRUE, id |-> id]

NoJsonBody == [json |-> FALSE, id |-> None]

ForeignUuid == 0

Bodies ==
    {JsonBody(Some(IdText(ForeignUuid))), JsonBody(Some(NoUuidText)),
     JsonBody(None), NoJsonBody}

Statuses == {200, 201, 400, 402, 403, 404, 429, 500, 503}

(* Every status without a body, and some of them with each body.          *)
Responses ==
    [status : Statuses, body : {NoJsonBody}]
        \cup [status : {200, 201}, body : Bodies]

(* resp.json::<HoneybadgerResponse>(): struct { id: Uuid }                 *)
json(body) ==
    IF body.json /\ is_some(body.id) /\ unwrap(body.id).uuid
    THEN Ok(unwrap(body.id).value)
    ELSE Err("ResponseDecodeFailed")

(* Mutant: any 2xx status counts as success.                              *)
match_status_2xx(resp) ==
    CASE resp.status \in {429, 503} -> Err("TooManyRequests")
      [] resp.status = 402 -> Err("PaymentRequired")
      [] resp.status = 403 -> Err("Forbidden")
      [] resp.status \in {200, 201} -> json(resp.body)
      [] OTHER -> Err("UnknownResponse")

(* report: match resp.status() { .. } and resp.json()                      *)
match_status(resp) ==
    CASE resp.status \in {429, 503} -> Err("TooManyRequests")
      [] resp.status = 402 -> Err("PaymentRequired")
      [] resp.status = 403 -> Err("Forbidden")
      [] resp.status = 201 -> json(resp.body)
      [] OTHER -> Err("UnknownResponse")

(* The collector of the tests listens on 127.0.0.1, without TLS.           *)
CollectorUrl ==
    [scheme |-> "http", host |-> S_localhost, port |-> 8080,
     path |-> "/v1/notices"]

(* Service::create_notice: the notice is stored and answered with 201 and  *)
(* the token of the error as id.                                           *)
create_notice(token) == [status |-> 201, body |-> JsonBody(Some(IdText(token)))]

Response(resp) == [kind |-> "response", resp |-> resp]

NoResponse(kind) == [kind |-> kind, resp |-> [status |-> 0, body |-> NoJsonBody]]

(* What a transport call can end with at an endpoint other than the        *)
(* collector: the payload does not serialize, the request fails, or any    *)
(* response comes back.                                                    *)
Networks ==
    {NoResponse("json_error"), NoResponse("io_error")}
        \cup {Response(r) : r \in Responses}

(* What the transport call ends with: the collector answers every notice.  *)
Transport(url, token) ==
    IF url = CollectorUrl THEN Response(create_notice(token)) ELSE network

(* report: the result of the transport call.                               *)
report(net) ==
    CASE net.kind = "json_error" -> Err("CouldNotAssemblePayload")
      [] net.kind = "io_error" -> Err("HttpRequestFailed")
      [] OTHER -> match_status(net.resp)

NoError == [api |-> "none", kind |-> "none", text |-> <<>>]

(* The functions a panic hook is made of: std's default hook, a hook the   *)
(* host has set, and honeybadger_panic_hook.                               *)
DefaultHook == "default_hook"

UserHook == "user_hook"

HoneybadgerHook == "honeybadger_panic_hook"

Once(state, old_hook) == [state |-> state, old_hook |-> old_hook]

(* Whether a panic calls honeybadger_panic_hook.                           *)
hooked == \E i \in 1 .. Len(HOOK) : HOOK[i] = HoneybadgerHook

(* notify_either's and notify_internal's locals.                           *)
NoAttempt ==
    [token |-> 0, error |-> NoError, api_key |-> None,
     environment_name |-> None, request |-> None]

NewAttempt(token, error) == [NoAttempt EXCEPT !.token = token, !.error = error]

NoRequests == [sent |-> 0, received |-> None]

(* notify_either starts: id = random_uuid(), then notify_internal.  The    *)
(* token drawn for the attempt is one no other attempt under way has.      *)
Begin(t, error, after) ==
    /\ Goto(t, "rep_read")
    /\ resume' = [resume EXCEPT ![t] = after]
    /\ attempt' = [attempt EXCEPT ![t] = NewAttempt(t, error)]
    /\ requests' = [requests EXCEPT ![t] = NoRequests]
    /\ UNCHANGED <<INSTALL_ONCE, HOOK, network, outcome>>

(* A panic is raised on the thread: the panic hook runs first, on the      *)
(* panicking thread, and then the thread unwinds.                          *)
Panics(t, payload, after) ==
    IF hooked
    THEN Begin(t, payload, after)
    ELSE Goto(t, after) /\ UNCHANGED repVars

(* A thread calls configure(f).                                            *)
StartConfigure(t) ==
    /\ pc[t] = "idle"
    /\ nconf < MaxConfigures
    /\ Goto(t, "cfg_lock")
    /\ nconf' = nconf + 1
    /\ UNCHANGED <<CONFIG, CONFIG_PROXY, script, ip, guards, pre, last,
                   applied, environ, policy, fnVars, extVars, ctxVars, repVars>>

(* CONFIG_PROXY.write().expect(..) returns to a thread that does not hold  *)
(* the lock; a poisoned lock makes expect panic.  Then catch_unwind enters *)
(* f, the mutator m: the argument of the call is first used here.          *)
AcquireProxy(t, m) ==
    /\ pc[t] = "cfg_lock"
    /\ ProxyLockFree
    /\ IF CONFIG_PROXY.poisoned
       THEN /\ Finish(t, "lock_poisoned")
            /\ UNCHANGED CONFIG_PROXY
       ELSE /\ CONFIG_PROXY' = [CONFIG_PROXY EXCEPT !.writer = t]
            /\ pre' = [pre EXCEPT ![t] = CONFIG.data]
            /\ script' = [script EXCEPT ![t] = m]
            /\ Goto(t, "cfg_run")
            /\ UNCHANGED <<last, ip>>
    /\ UNCHANGED <<CONFIG, guards, applied, nconf, environ, policy, fnVars, extVars,
                   ctxVars, repVars>>

(* Mutant: the mutator is handed CONFIG itself and assigns in place.       *)
MutAssignInPlace(t) ==
    /\ InMutator(t)
    /\ Stmt(t).op \in Assigns
    /\ CONFIG' = [CONFIG EXCEPT !.data = Assign(Stmt(t), CONFIG.data, environ)]
    /\ ip' = [ip EXCEPT ![t] = @ + 1]
    /\ UNCHANGED <<CONFIG_PROXY, pc, script, guards, pre, last, applied, nconf,
                   environ, policy, fnVars, extVars, ctxVars, repVars>>

(* The mutator assigns to the view it was handed: the proxy.               *)
MutAssign(t) ==
    /\ InMutator(t)
    /\ Stmt(t).op \in Assigns
    /\ CONFIG_PROXY' =
          [CONFIG_PROXY EXCEPT !.data = Assign(Stmt(t), CONFIG_PROXY.data, environ)]
    /\ ip' = [ip EXCEPT ![t] = @ + 1]
    /\ UNCHANGED <<CONFIG, pc, script, guards, pre, last, applied, nconf,
                   environ, policy, fnVars, extVars, ctxVars, repVars>>

(* The mutator calls read_config() and keeps the guard in a local.         *)
MutReadConfig(t) ==
    /\ InMutator(t)
    /\ Stmt(t).op = "read_config"
    /\ ReadLockFree
    /\ IF CONFIG.poisoned
       THEN Goto(t, "cfg_unwind") /\ UNCHANGED <<guards, ip>>
       ELSE /\ guards' = [guards EXCEPT ![t] = Append(@, Guard("closure"))]
            /\ ip' = [ip EXCEPT ![t] = @ + 1]
            /\ UNCHANGED pc
    /\ UNCHANGED <<CONFIG, CONFIG_PROXY, script, pre, last, applied, nconf,
                   environ, policy, fnVars, extVars, ctxVars, repVars>>

(* The mutator panics.                                                     *)
MutPanic(t) ==
    /\ InMutator(t)
    /\ Stmt(t).op = "panic"
    /\ Panics(t, PanicPayload("str", S_panic_test), "cfg_unwind")
    /\ UNCHANGED <<CONFIG, CONFIG_PROXY, script, ip, guards, pre, last,
                   applied, nconf, environ, policy, fnVars, extVars, ctxVars>>

(* Mutant: the proxy lock is reentrant, so the nested configure runs its   *)
(* (empty) mutator on the proxy and publishes it.                          *)
MutConfigureReenters(t) ==
    /\ InMutator(t)
    /\ Stmt(t).op = "configure"
    /\ CONFIG_PROXY.writer = t
    /\ WriteLockFree
    /\ CONFIG' = [CONFIG EXCEPT !.data = CONFIG_PROXY.data]
    /\ ip' = [ip EXCEPT ![t] = @ + 1]
    /\ UNCHANGED <<CONFIG_PROXY, pc, script, guards, pre, last, applied, nconf,
                   environ, policy, fnVars, extVars, ctxVars, repVars>>

(* The mutator calls configure: CONFIG_PROXY.write() on a lock the thread  *)
(* already holds either panics ...                                         *)
MutConfigurePanics(t) ==
    /\ InMutator(t)
    /\ Stmt(t).op = "configure"
    /\ CONFIG_PROXY.writer = t
    /\ Panics(t, PanicPayload("String", S_boom), "cfg_unwind")
    /\ UNCHANGED <<CONFIG, CONFIG_PROXY, script, ip, guards, pre, last,
                   applied, nconf, environ, policy, fnVars, extVars, ctxVars>>

(* ... or never returns.                                                   *)
MutConfigureDeadlocks(t) ==
    /\ InMutator(t)
    /\ Stmt(t).op = "configure"
    /\ CONFIG_PROXY.writer = t
    /\ Goto(t, "cfg_deadlock")
    /\ UNCHANGED <<CONFIG, CONFIG_PROXY, script, ip, guards, pre, last,
                   applied, nconf, environ, policy, fnVars, extVars, ctxVars, repVars>>

(* The mutator returns: its locals, the guards among them, are dropped,    *)
(* and configure goes on to replace_config.                                *)
MutReturn(t) ==
    /\ pc[t] = "cfg_run"
    /\ ip[t] > Len(Script(script[t]))
    /\ guards' = [guards EXCEPT ![t] = DropScope(@, "closure")]
    /\ Goto(t, "cfg_publish")
    /\ UNCHANGED <<CONFIG, CONFIG_PROXY, script, ip, pre, last, applied, nconf,
                   environ, policy, fnVars, extVars, ctxVars, repVars>>

(* replace_config: CONFIG.write().expect(..) returns.                      *)
PublishAcquire(t) ==
    /\ pc[t] = "cfg_publish"
    /\ WriteLockFree
    /\ IF CONFIG.poisoned
       THEN Goto(t, "cfg_unwind") /\ UNCHANGED CONFIG
       ELSE Goto(t, "cfg_store") /\ CONFIG' = [CONFIG EXCEPT !.writer = t]
    /\ UNCHANGED <<CONFIG_PROXY, script, ip, guards, pre, last, applied, nconf,
                   environ, policy, fnVars, extVars, ctxVars, repVars>>

(* replace_config on a thread that still holds a guard of read_config:     *)
(* CONFIG.write() may panic; when it does not, the thread waits for its    *)
(* own guard for ever.                                                     *)
PublishSelfPanics(t) ==
    /\ pc[t] = "cfg_publish"
    /\ guards[t] # <<>>
    /\ Panics(t, PanicPayload("String", S_boom), "cfg_unwind")
    /\ UNCHANGED <<CONFIG, CONFIG_PROXY, script, ip, guards, pre, last,
                   applied, nconf, environ, policy, fnVars, extVars, ctxVars>>

(* mem::replace under the write lock of CONFIG, then both write guards are *)
(* dropped and configure returns.                                          *)
PublishStore(t) ==
    /\ pc[t] = "cfg_store"
    /\ CONFIG' = [CONFIG EXCEPT !.data = Published(CONFIG_PROXY.data),
                                !.writer = NoThread]
    /\ CONFIG_PROXY' = [CONFIG_PROXY EXCEPT !.writer = NoThread]
    /\ applied' = Append(applied, script[t])
    /\ Finish(t, "returned")
    /\ UNCHANGED <<guards, nconf, environ, policy, fnVars, extVars, ctxVars, repVars>>

(* The panic unwinds the closure, dropping its locals, and catch_unwind    *)
(* returns Err.                                                            *)
CatchUnwind(t) ==
    /\ pc[t] = "cfg_unwind"
    /\ guards' = [guards EXCEPT ![t] = DropScope(@, "closure")]
    /\ Goto(t, "cfg_rollback")
    /\ UNCHANGED <<CONFIG, CONFIG_PROXY, script, ip, pre, last, applied, nconf,
                   environ, policy, fnVars, extVars, ctxVars, repVars>>

(* The Err branch: read_config(), clone_from, drop of the proxy guard,     *)
(* resume_unwind.  The caller of configure catches the panic.              *)
Rollback(t) ==
    /\ pc[t] = "cfg_rollback"
    /\ ReadLockFree
    /\ IF CONFIG.poisoned
       THEN CONFIG_PROXY' = [CONFIG_PROXY EXCEPT !.writer = NoThread,
                                                 !.poisoned = TRUE]
       ELSE CONFIG_PROXY' =
               [data |-> RolledBack(ReadValue, CONFIG_PROXY.data),
                writer |-> NoThread,
                poisoned |-> CONFIG_PROXY.poisoned \/ ~ProxyDroppedBeforeResume]
    /\ Finish(t, "panicked")
    /\ UNCHANGED <<CONFIG, guards, applied, nconf, environ, policy, fnVars, extVars,
                   ctxVars, repVars>>

(* A thread calls read_config().                                           *)
StartRead(t) ==
    /\ pc[t] = "idle"
    /\ Len(guards[t]) < MaxGuards
    /\ Goto(t, "read_lock")
    /\ UNCHANGED <<CONFIG, CONFIG_PROXY, script, ip, guards, pre, last,
                   applied, nconf, environ, policy, fnVars, extVars, ctxVars, repVars>>

(* CONFIG.read().expect(..) returns the guard.                             *)
ReadAcquire(t) ==
    /\ pc[t] = "read_lock"
    /\ ReadLockFree
    /\ IF CONFIG.poisoned
       THEN Finish(t, "lock_poisoned") /\ UNCHANGED guards
       ELSE /\ guards' = [guards EXCEPT ![t] = Append(@, Guard("caller"))]
            /\ Finish(t, "returned")
    /\ UNCHANGED <<CONFIG, CONFIG_PROXY, applied, nconf, environ,
                   policy, fnVars, extVars, ctxVars, repVars>>

(* A thread drops one of the guards it holds.                              *)
DropGuard(t, i) ==
    /\ pc[t] = "idle"
    /\ i \in 1 .. Len(guards[t])
    /\ guards' = [guards EXCEPT ![t] = RemoveAt(@, i)]
    /\ UNCHANGED <<CONFIG, CONFIG_PROXY, pc, script, ip, pre, last, applied,
                   nconf, environ, policy, fnVars, extVars, ctxVars, repVars>>

----------------------------------------------------------------------------
(* context.rs: SCOPED_CONTEXT (scoped_thread_local!) and DEFAULT_CONTEXT   *)
(* (thread_local! RefCell<Option<RequestInfo>>).  The operations are calls  *)
(* of a thread that is not inside configure, read_config or a report.       *)

RequestInfos == {"request_a", "request_b"}

(* Mutant: the default binding is one slot of the process, not of the      *)
(* thread.                                                                 *)
get_process_default(t) ==
    IF is_some(scoped[t]) THEN Some(unwrap(scoped[t]))
    ELSE IF \E u \in Threads : is_some(dflt[u])
    THEN dflt[CHOOSE u \in Threads : is_some(dflt[u])]
    ELSE None

(* Mutant: get() knows the scoped binding only.                            *)
get_scoped_only(t) == scoped[t]

(* Mutant: get() looks at the default binding first.                       *)
get_default_first(t) == IF is_some(dflt[t]) THEN dflt[t] ELSE scoped[t]

(* get(): the scoped binding when SCOPED_CONTEXT.is_set(), a clone of the  *)
(* default binding otherwise.                                              *)
get(t) == IF is_some(scoped[t]) THEN Some(unwrap(scoped[t])) ELSE dflt[t]

ActiveWiths ==
    LET RECURSIVE Sum(_)
        Sum(S) == IF S = {} THEN 0
                  ELSE LET t == CHOOSE x \in S : TRUE
                       IN  Len(frames[t]) + Sum(S \ {t})
    IN  Sum(Threads)

Front(seq) == SubSeq(seq, 1, Len(seq) - 1)

Last(seq) == seq[Len(seq)]

Event(op, t, ret) == [op |-> op, thread |-> t, ret |-> ret]

(* with(r, f) is entered: SCOPED_CONTEXT.set(r, f) stores r and keeps the  *)
(* binding it replaces until f is left.                                    *)
Enter(t, r) ==
    /\ pc[t] = "idle"
    /\ ActiveWiths < MaxWiths
    /\ frames' = [frames EXCEPT ![t] = Append(@, scoped[t])]
    /\ scoped' = [scoped EXCEPT ![t] = Some(r)]
    /\ bound' = [bound EXCEPT ![t] = Append(@, r)]
    /\ before' = [before EXCEPT ![t] = Append(@, get(t))]
    /\ touched' = [touched EXCEPT ![t] = Append(@, FALSE)]
    /\ cevent' = Event("with", t, None)
    /\ UNCHANGED <<dflt, recent>>

(* A thread calls with(r, f).                                              *)
WithEnter(t, r) ==
    /\ Enter(t, r)
    /\ UNCHANGED <<cfgVars, fnVars, extVars, repVars>>

(* Leaving the innermost with of the thread puts the replaced binding      *)
(* back, whether the body returned or panicked.                            *)
Leave(t, op) ==
    /\ pc[t] = "idle"
    /\ frames[t] # <<>>
    /\ scoped' = [scoped EXCEPT ![t] = Last(frames[t])]
    /\ frames' = [frames EXCEPT ![t] = Front(@)]
    /\ bound' = [bound EXCEPT ![t] = Front(@)]
    /\ before' = [before EXCEPT ![t] = Front(@)]
    /\ touched' = [touched EXCEPT ![t] =
                      [i \in 1 .. Len(@) - 1 |-> @[i] \/ @[Len(@)]]]
    /\ cevent' = Event(op, t, None)
    /\ UNCHANGED <<dflt, recent>>

(* with(r, f) is left on a thread.                                         *)
WithLeave(t, op) ==
    /\ Leave(t, op)
    /\ UNCHANGED <<cfgVars, fnVars, extVars, repVars>>

WithReturn(t) == WithLeave(t, "with_return")

(* Mutant: the binding is put back only when the body returns.             *)
WithUnwindKeepsBinding(t) ==
    /\ pc[t] = "idle"
    /\ frames[t] # <<>>
    /\ frames' = [frames EXCEPT ![t] = Front(@)]
    /\ bound' = [bound EXCEPT ![t] = Front(@)]
    /\ before' = [before EXCEPT ![t] = Front(@)]
    /\ touched' = [touched EXCEPT ![t] =
                      [i \in 1 .. Len(@) - 1 |-> @[i] \/ @[Len(@)]]]
    /\ cevent' = Event("with_unwind", t, None)
    /\ UNCHANGED <<scoped, dflt, recent, cfgVars, fnVars, extVars, repVars>>

WithUnwind(t) == WithLeave(t, "with_unwind")

(* Mutant: set and unset write the binding that get() reads: the scoped    *)
(* one inside a with.                                                      *)
SetDefaultOrScoped(t, value, op) ==
    /\ pc[t] = "idle"
    /\ IF is_some(scoped[t]) /\ is_some(value)
       THEN scoped' = [scoped EXCEPT ![t] = value] /\ UNCHANGED dflt
       ELSE dflt' = [dflt EXCEPT ![t] = value] /\ UNCHANGED scoped
    /\ recent' = [recent EXCEPT ![t] = [op |-> op, value |-> value]]
    /\ touched' = [touched EXCEPT ![t] = [i \in 1 .. Len(@) |-> TRUE]]
    /\ cevent' = Event(op, t, None)
    /\ UNCHANGED <<frames, bound, before, cfgVars, fnVars, extVars, repVars>>

(* set(r) and unset() write the default binding of the thread.             *)
SetDefault(t, value, op) ==
    /\ pc[t] = "idle"
    /\ dflt' = [dflt EXCEPT ![t] = value]
    /\ recent' = [recent EXCEPT ![t] = [op |-> op, value |-> value]]
    /\ touched' = [touched EXCEPT ![t] = [i \in 1 .. Len(@) |-> TRUE]]
    /\ cevent' = Event(op, t, None)
    /\ UNCHANGED <<scoped, frames, bound, before, cfgVars, fnVars, extVars, repVars>>

CtxSet(t, r) == SetDefault(t, Some(r), "set")

CtxUnset(t) == SetDefault(t, None, "unset")

(* A call of get() on the thread.                                          *)
CtxGet(t) ==
    /\ pc[t] = "idle"
    /\ cevent' = Event("get", t, get(t))
    /\ UNCHANGED <<scoped, frames, dflt, bound, before, touched, recent,
                   cfgVars, fnVars, extVars, repVars>>

----------------------------------------------------------------------------
(* lib.rs: notify, notify_std_error, the panic hook and setup              *)

cfgRest == <<CONFIG, CONFIG_PROXY, script, ip, pre, last, applied, nconf,
             environ, policy>>

(* Mutant: an error other than NoReportData is raised into the caller.     *)
EndPropagates(t, result) ==
    /\ Goto(t, IF result.err \in {"none", "NoReportData"} THEN resume[t]
                                                          ELSE "exiting")
    /\ guards' = [guards EXCEPT ![t] = DropScope(@, "report")]
    /\ outcome' = result
    /\ attempt' = [attempt EXCEPT ![t] = NoAttempt]
    /\ resume' = [resume EXCEPT ![t] = "idle"]

(* The attempt ends: notify_internal returns, dropping its guard, and      *)
(* notify_either prints one line and returns to where it was called.       *)
End(t, result) ==
    /\ Goto(t, resume[t])
    /\ guards' = [guards EXCEPT ![t] = DropScope(@, "report")]
    /\ outcome' = result
    /\ attempt' = [attempt EXCEPT ![t] = NoAttempt]
    /\ resume' = [resume EXCEPT ![t] = "idle"]

(* A thread calls notify(error) or notify_std_error(error).                *)
Notify(t, error) ==
    /\ pc[t] = "idle"
    /\ Begin(t, error, "idle")
    /\ UNCHANGED <<cfgRest, fnVars, extVars, guards, ctxVars>>

(* A thread panics outside configure: the hook runs, the thread unwinds.   *)
ThreadPanic(t, payload) ==
    /\ pc[t] = "idle"
    /\ Panics(t, payload, "exiting")
    /\ UNCHANGED <<cfgRest, fnVars, extVars, guards, ctxVars>>

(* The panicking thread has unwound, dropping what it held: it can be      *)
(* joined.                                                                 *)
ThreadExit(t) ==
    /\ pc[t] = "exiting"
    /\ Goto(t, "exited")
    /\ guards' = [guards EXCEPT ![t] = <<>>]
    /\ UNCHANGED <<cfgRest, fnVars, extVars, ctxVars, repVars>>

(* Mutant: the guard of notify_internal is dropped once the key is read.   *)
NotifyInternalDropsGuard(t) ==
    /\ pc[t] = "rep_read"
    /\ ReadLockFree
    /\ IF CONFIG.poisoned
       THEN End(t, Err("panic"))
       ELSE LET r == checks(ReadValue)
            IN  IF r.err # "none"
                THEN End(t, r)
                ELSE /\ attempt' = [attempt EXCEPT ![t].api_key = r.id]
                     /\ Goto(t, "rep_server")
                     /\ UNCHANGED <<guards, resume, outcome>>
    /\ UNCHANGED <<cfgRest, fnVars, extVars, ctxVars, INSTALL_ONCE, HOOK, requests, network>>

(* notify_internal: read_config(), the gate, the API key.  The guard is    *)
(* kept until notify_internal returns.                                     *)
NotifyInternal(t) ==
    /\ pc[t] = "rep_read"
    /\ ReadLockFree
    /\ IF CONFIG.poisoned
       THEN End(t, Err("panic"))
       ELSE LET r == checks(ReadValue)
            IN  IF r.err # "none"
                THEN End(t, r)
                ELSE /\ guards' = [guards EXCEPT ![t] = Append(@, Guard("report"))]
                     /\ attempt' = [attempt EXCEPT ![t].api_key = r.id]
                     /\ Goto(t, "rep_server")
                     /\ UNCHANGED <<resume, outcome>>
    /\ UNCHANGED <<cfgRest, fnVars, extVars, ctxVars, INSTALL_ONCE, HOOK, requests, network>>

(* ServerInfo::generate(): read_config() again, its guard dropped on       *)
(* return; then context::get().                                            *)
ServerInfoGenerate(t) ==
    /\ pc[t] = "rep_server"
    /\ ReadLockFree
    /\ IF CONFIG.poisoned
       THEN End(t, Err("panic"))
       ELSE /\ attempt' = [attempt EXCEPT ![t].environment_name = ReadValue.env,
                                          ![t].request = get(t)]
            /\ Goto(t, IF is_some(get(t)) THEN "rep_sanitize" ELSE "rep_send")
            /\ UNCHANGED <<guards, resume, outcome>>
    /\ UNCHANGED <<cfgRest, fnVars, extVars, ctxVars, INSTALL_ONCE, HOOK, requests, network>>

(* payload.sanitize(): RequestInfo::sanitize takes read_config() once      *)
(* more, when there is a request.                                          *)
Sanitize(t) ==
    /\ pc[t] = "rep_sanitize"
    /\ ReadLockFree
    /\ IF CONFIG.poisoned
       THEN End(t, Err("panic"))
       ELSE Goto(t, "rep_send") /\ UNCHANGED <<guards, resume, outcome, attempt>>
    /\ UNCHANGED <<cfgRest, fnVars, extVars, ctxVars, INSTALL_ONCE, HOOK, requests, network>>

(* The transport call of the attempt hands one more request to the         *)
(* network; a notice the collector receives is stored there with its       *)
(* error.message.                                                          *)
Sent(t, net) ==
    IF net.kind = "json_error" THEN requests
    ELSE [requests EXCEPT
            ![t] =
                [sent |-> @.sent + 1,
                 received |-> IF Url(ReadValue) = CollectorUrl
                              THEN Some(Message(attempt[t].error))
                              ELSE @.received]]

(* Mutant: a TooManyRequests answer is followed by one more try.          *)
SendRetries(t) ==
    LET net == Transport(Url(ReadValue), attempt[t].token)
    IN  /\ pc[t] = "rep_send"
        /\ requests' = Sent(t, net)
        /\ IF report(net) = Err("TooManyRequests")
               /\ requests[t].sent = 0
           THEN UNCHANGED <<pc, guards, outcome, attempt, resume>>
           ELSE End(t, report(net))
        /\ UNCHANGED <<cfgRest, fnVars, extVars, ctxVars, INSTALL_ONCE, HOOK, network>>

(* report(&payload, &config): one transport call, then the result.         *)
Send(t) ==
    LET net == Transport(Url(ReadValue), attempt[t].token)
    IN  /\ pc[t] = "rep_send"
        /\ requests' = Sent(t, net)
        /\ End(t, report(net))
        /\ UNCHANGED <<cfgRest, fnVars, extVars, ctxVars, INSTALL_ONCE, HOOK, network>>

(* setup(): configure_from_env() and install_hook(), called while no       *)
(* other call is under way: the first call of the process.                 *)
Setup(t) ==
    /\ pc[t] = "idle"
    /\ \A u \in Threads : pc[u] \in {"idle", "exited"}
    /\ ProxyLockFree
    /\ WriteLockFree
    /\ INSTALL_ONCE.state = "new"
    /\ CONFIG' = [CONFIG EXCEPT !.data = from_env(CONFIG_PROXY.data, environ)]
    /\ CONFIG_PROXY' =
          [CONFIG_PROXY EXCEPT !.data = from_env(CONFIG_PROXY.data, environ)]
    /\ applied' = Append(applied, "from_env")
    /\ last' = "returned"
    /\ INSTALL_ONCE' = Once("done", HOOK)
    /\ HOOK' = Append(HOOK, HoneybadgerHook)
    /\ UNCHANGED <<pc, script, ip, guards, pre, nconf, environ, policy, fnVars, extVars,
                   ctxVars, resume, attempt, requests, network, outcome>>

CtxInit ==
    /\ scoped = [t \in Threads |-> None]
    /\ frames = [t \in Threads |-> <<>>]
    /\ dflt = [t \in Threads |-> None]
    /\ bound = [t \in Threads |-> <<>>]
    /\ before = [t \in Threads |-> <<>>]
    /\ touched = [t \in Threads |-> <<>>]
    /\ recent = [t \in Threads |-> [op |-> "none", value |-> None]]
    /\ cevent = [op |-> "none", thread |-> NoThread, ret |-> None]

CfgInitAt(config) ==
    /\ CONFIG = RwLockNew(config)
    /\ CONFIG_PROXY = RwLockNew(config)
    /\ pc = [t \in Threads |-> "idle"]
    /\ script = [t \in Threads |-> "none"]
    /\ ip = [t \in Threads |-> 1]
    /\ guards = [t \in Threads |-> <<>>]
    /\ pre = [t \in Threads |-> ConfigDefault]
    /\ last = "none"
    /\ applied = <<>>
    /\ nconf = 0

CfgInit == CfgInitAt(ConfigDefault)

RepInitOn(net, hook) ==
    /\ network = net
    /\ HOOK = IF hook THEN <<DefaultHook, HoneybadgerHook>> ELSE <<DefaultHook>>
    /\ INSTALL_ONCE = IF hook THEN Once("done", <<DefaultHook>>)
                              ELSE Once("new", <<>>)
    /\ resume = [t \in Threads |-> "idle"]
    /\ attempt = [t \in Threads |-> NoAttempt]
    /\ requests = [t \in Threads |-> NoRequests]
    /\ outcome = Err("none")

RepInit == RepInitOn(NoResponse("io_error"), FALSE)

(* No function of the report assembly has been applied.                    *)
NoArg == [fn |-> "none"]

NoRet == [fn |-> "none"]

FnInit == argument = NoArg /\ returned = NoRet

(* No request has reached the gotham server.                               *)
NoTask == [state |-> "none", thread |-> NoThread]

TasksInit == tasks = [q \in RequestInfos |-> NoTask]

(* The connections a test collector is given.                              *)
NumRequests == 2

ConnIds == 1 .. NumRequests

(* The body of a request, by what read_body and serde_json::from_slice     *)
(* make of it.                                                             *)
Body(kind, token) == [kind |-> kind, token |-> token]

NoBody == Body("empty", None)

Conn(state, method, path, body, status, id) ==
    [state |-> state, method |-> method, path |-> path, body |-> body,
     status |-> status, id |-> id]

NoConn == Conn("none", "", "", NoBody, 0, None)

(* ErrorData::default() behind its RwLock: no errors, no guard.            *)
ErrorData(errors, writer, readers) ==
    [errors |-> errors, writer |-> writer, readers |-> readers]

(* sync::TestServer and what it owns.  main: where the owner of the struct *)
(* is; thread: the server thread; task: the hyper server spawned on the    *)
(* thread's runtime; thread_handle, start_shutdown: whether self.thread    *)
(* and inner.start_shutdown are Some.                                      *)
TestServer(main, thread, task) ==
    [main |-> main, thread |-> thread, task |-> task, bound |-> thread # "none",
     thread_handle |-> thread # "none", start_shutdown |-> thread # "none",
     taken |-> FALSE, sends |-> 0, calls |-> 0, call |-> "none",
     returned |-> "none"]

(* No test collector has been made.                                        *)
SrvInit ==
    /\ error_data = ErrorData(<<>>, 0, 0)
    /\ conns = [c \in ConnIds |-> NoConn]
    /\ server = TestServer("none", "none", "none")

ExtInit == TasksInit /\ SrvInit

Policies == {"prefer_readers", "prefer_writers"}

(* Safety: a lock that prefers readers allows every behaviour a lock that  *)
(* prefers writers allows.                                                 *)
Init ==
    /\ CfgInit
    /\ environ = EnvTypical
    /\ policy = "prefer_readers"
    /\ CtxInit
    /\ RepInit
    /\ FnInit
    /\ ExtInit

Next ==
    \E t \in Threads :
        \/ StartConfigure(t)
        \/ \E m \in Mutators : AcquireProxy(t, m)
        \/ MutAssign(t)
        \/ MutReadConfig(t)
        \/ MutPanic(t)
        \/ MutConfigurePanics(t)
        \/ MutConfigureDeadlocks(t)
        \/ MutReturn(t)
        \/ PublishAcquire(t)
        \/ PublishSelfPanics(t)
        \/ PublishStore(t)
        \/ CatchUnwind(t)
        \/ Rollback(t)
        \/ StartRead(t)
        \/ ReadAcquire(t)
        \/ \E i \in 1 .. MaxGuards + 1 : DropGuard(t, i)

Spec == Init /\ [][Next]_vars

InitCtx ==
    /\ CfgInit
    /\ environ = EnvTypical
    /\ policy = "prefer_readers"
    /\ CtxInit
    /\ RepInit
    /\ FnInit
    /\ ExtInit

NextCtx ==
    \E t \in Threads :
        \/ \E r \in RequestInfos : WithEnter(t, r)
        \/ WithReturn(t)
        \/ WithUnwind(t)
        \/ \E r \in RequestInfos : CtxSet(t, r)
        \/ CtxUnset(t)
        \/ CtxGet(t)

SpecCtx == InitCtx /\ [][NextCtx]_vars

(* The report pipeline on its own: the store holds any of the             *)
(* configurations below, setup may or may not have been called, errors    *)
(* are notified and threads panic.                                         *)
CollectorConnection ==
    [secure |-> Some(FALSE), host |-> Some(S_localhost), port |-> Some(8080)]

GateConfigs ==
    {[ConfigDefault EXCEPT !.api_key = k, !.report_data = r, !.env = e] :
        k \in {None, Some(S_abcdef)},
        r \in {None, Some(TRUE), Some(FALSE)},
        e \in {None, Some(S_test), Some(S_Test), Some(S_development),
               Some(S_cucumber), Some(S_production)}}

(* The configure call of tests/panic.rs, alone and with report_data or env *)
(* set as well.                                                            *)
CollectorConfigs ==
    {[ConfigDefault EXCEPT !.api_key = Some(S_abcdef), !.report_data = r,
                           !.env = e, !.connection = CollectorConnection] :
        r \in {None, Some(FALSE)}, e \in {None, Some(S_cucumber)}}

(* A thread that has called set(request_a).                                *)
CtxInitSet ==
    /\ scoped = [t \in Threads |-> None]
    /\ frames = [t \in Threads |-> <<>>]
    /\ dflt = [t \in Threads |-> Some("request_a")]
    /\ bound = [t \in Threads |-> <<>>]
    /\ before = [t \in Threads |-> <<>>]
    /\ touched = [t \in Threads |-> <<>>]
    /\ recent = [t \in Threads |-> [op |-> "set", value |-> Some("request_a")]]
    /\ cevent = Event("set", NumThreads, None)

(* Every configuration of the gate at an endpoint that does not answer;    *)
(* one configuration that passes the gate at an endpoint that answers      *)
(* anything; the collector.                                                *)
InitGate ==
    /\ \E config \in GateConfigs : CfgInitAt(config)
    /\ RepInitOn(NoResponse("io_error"), FALSE)
    /\ CtxInit

InitNetwork ==
    /\ CfgInitAt([ConfigDefault EXCEPT !.api_key = Some(S_abcdef)])
    /\ \E net \in Networks : RepInitOn(net, FALSE)
    /\ CtxInit

InitCollector ==
    /\ \E config \in CollectorConfigs : CfgInitAt(config)
    /\ RepInitOn(NoResponse("io_error"), FALSE)
    /\ CtxInit \/ CtxInitSet

InitNotify ==
    /\ InitGate \/ InitNetwork \/ InitCollector
    /\ environ = EnvTypical
    /\ policy = "prefer_readers"
    /\ FnInit
    /\ ExtInit

NextNotify ==
    \E t \in Threads :
        \/ Setup(t)
        \/ \E error \in Errors : Notify(t, error)
        \/ \E payload \in PanicPayloads : ThreadPanic(t, payload)
        \/ ThreadExit(t)
        \/ NotifyInternal(t)
        \/ ServerInfoGenerate(t)
        \/ Sanitize(t)
        \/ Send(t)

SpecNotify == InitNotify /\ [][NextNotify]_vars

(* The same program started under each of the environments.                *)
InitEnv ==
    /\ CfgInit
    /\ environ \in Environments
    /\ policy = "prefer_readers"
    /\ CtxInit
    /\ RepInit
    /\ FnInit
    /\ ExtInit

SpecEnv == InitEnv /\ [][Next]_vars

(* Liveness: both lock policies; every step of a call that is under way    *)
(* is eventually taken when it stays possible.  Starting a call and        *)
(* dropping a guard are up to the caller, and whether a write() on a lock  *)
(* the thread itself holds panics is up to the platform.                   *)
InitLive ==
    /\ CfgInit
    /\ environ = EnvTypical
    /\ policy \in Policies
    /\ CtxInit
    /\ RepInit
    /\ FnInit
    /\ ExtInit

Progress(t) ==
    \/ \E m \in Mutators : AcquireProxy(t, m)
    \/ MutAssign(t)
    \/ MutReadConfig(t)
    \/ MutPanic(t)
    \/ MutConfigurePanics(t)
    \/ MutConfigureDeadlocks(t)
    \/ MutReturn(t)
    \/ PublishAcquire(t)
    \/ PublishStore(t)
    \/ CatchUnwind(t)
    \/ Rollback(t)
    \/ ReadAcquire(t)

SpecLive == InitLive /\ [][Next]_vars /\ \A t \in Threads : WF_vars(Progress(t))

(* Reports next to configure calls: setup() has been called, threads       *)
(* notify errors and call configure with mutators that read, panic under   *)
(* the hook or call configure; both lock policies; every step of a call    *)
(* under way is eventually taken when it stays possible, the transport     *)
(* call returning included.                                                *)
HookMutators == {"set_two", "panics", "nested"}

InitHook ==
    /\ CfgInitAt(from_env(ConfigDefault, EnvTypical))
    /\ environ = EnvTypical
    /\ policy \in Policies
    /\ CtxInitSet
    /\ RepInitOn(NoResponse("io_error"), TRUE)
    /\ FnInit
    /\ ExtInit

ReportProgress(t) ==
    \/ NotifyInternal(t)
    \/ ServerInfoGenerate(t)
    \/ Sanitize(t)
    \/ Send(t)

NextHook ==
    \E t \in Threads :
        \/ StartConfigure(t)
        \/ \E m \in HookMutators : AcquireProxy(t, m)
        \/ MutAssign(t)
        \/ MutReadConfig(t)
        \/ MutPanic(t)
        \/ MutConfigurePanics(t)
        \/ MutConfigureDeadlocks(t)
        \/ MutReturn(t)
        \/ PublishAcquire(t)
        \/ PublishStore(t)
        \/ CatchUnwind(t)
        \/ Rollback(t)
        \/ \E error \in Errors : Notify(t, error)
        \/ NotifyInternal(t)
        \/ ServerInfoGenerate(t)
        \/ Sanitize(t)
        \/ Send(t)

SpecHook ==
    /\ InitHook
    /\ [][NextHook]_vars
    /\ \A t \in Threads : WF_vars(Progress(t)) /\ WF_vars(ReportProgress(t))

----------------------------------------------------------------------------
(* mightybadger-gotham: HoneybadgerMiddleware and WithRequestContext       *)

Task(state, t) == [state |-> state, thread |-> t]

(* The thread runs no handler code of a request: it is in the executor.    *)
InExecutor(t) == \A q \in RequestInfos : tasks[q].thread # t

(* Middleware::call for a request with RequestInfo q: the handler chain is *)
(* called inside with(&request_info, ..).                                  *)
MiddlewareCall(t, q) ==
    /\ tasks[q].state = "none"
    /\ InExecutor(t)
    /\ Enter(t, q)
    /\ tasks' = [tasks EXCEPT ![q] = Task("call", t)]
    /\ UNCHANGED <<cfgVars, fnVars, repVars, srvVars>>

(* chain(state) returns its future; with returns, and call returns the     *)
(* future wrapped in WithRequestContext.                                   *)
ChainReturns(t, q) ==
    /\ tasks[q] = Task("call", t)
    /\ Leave(t, "with_return")
    /\ tasks' = [tasks EXCEPT ![q] = Task("pending", NoThread)]
    /\ UNCHANGED <<cfgVars, fnVars, repVars, srvVars>>

(* Mutant: call returns the future of the chain as it is, and a poll runs  *)
(* the inner future directly.                                              *)
PollUnwrapped(t, q) ==
    /\ tasks[q].state = "pending"
    /\ InExecutor(t)
    /\ pc[t] = "idle"
    /\ tasks' = [tasks EXCEPT ![q] = Task("poll", t)]
    /\ UNCHANGED <<cfgVars, fnVars, repVars, ctxVars, srvVars>>

(* The executor polls the future of a request on one of its threads:       *)
(* WithRequestContext::poll calls inner.poll() inside with(&self.context). *)
Poll(t, q) ==
    /\ tasks[q].state = "pending"
    /\ InExecutor(t)
    /\ Enter(t, q)
    /\ tasks' = [tasks EXCEPT ![q] = Task("poll", t)]
    /\ UNCHANGED <<cfgVars, fnVars, repVars, srvVars>>

(* inner.poll() returns NotReady or Ready: with returns, poll returns.     *)
PollReturns(t, q, ready) ==
    /\ tasks[q] = Task("poll", t)
    /\ Leave(t, "with_return")
    /\ tasks' = [tasks EXCEPT ![q] = Task(IF ready THEN "done" ELSE "pending",
                                          NoThread)]
    /\ UNCHANGED <<cfgVars, fnVars, repVars, srvVars>>

(* The handler code of the request panics: the hook runs where the panic   *)
(* is raised, inside the with.                                             *)
HandlerPanics(t, q) ==
    /\ tasks[q].thread = t
    /\ tasks[q].state \in {"call", "poll"}
    /\ pc[t] = "idle"
    /\ Panics(t, PanicPayload("str", S_panic_test), "idle")
    /\ tasks' = [tasks EXCEPT ![q] = Task("unwinding", t)]
    /\ UNCHANGED <<cfgRest, guards, fnVars, ctxVars, srvVars>>

(* The panic unwinds out of the with and is caught by the server.          *)
HandlerUnwinds(t, q) ==
    /\ tasks[q] = Task("unwinding", t)
    /\ Leave(t, "with_unwind")
    /\ tasks' = [tasks EXCEPT ![q] = Task("done", NoThread)]
    /\ UNCHANGED <<cfgVars, fnVars, repVars, srvVars>>

(* A gotham server with the hook installed: requests arrive, their futures *)
(* are polled in any order on the threads of the executor, and handler     *)
(* code or any other code on those threads reports errors.                 *)
InitGotham ==
    /\ CfgInitAt([ConfigDefault EXCEPT !.api_key = Some(S_abcdef)])
    /\ environ = EnvTypical
    /\ policy = "prefer_readers"
    /\ CtxInit
    /\ RepInitOn(NoResponse("io_error"), TRUE)
    /\ FnInit
    /\ ExtInit

NextGotham ==
    \E t \in Threads :
        \/ \E q \in RequestInfos :
              \/ MiddlewareCall(t, q)
              \/ ChainReturns(t, q)
              \/ Poll(t, q)
              \/ \E ready \in BOOLEAN : PollReturns(t, q, ready)
              \/ HandlerPanics(t, q)
              \/ HandlerUnwinds(t, q)
        \/ Notify(t, [kind |-> "Fail", text |-> S_boom, api |-> "notify"])
        \/ NotifyInternal(t)
        \/ ServerInfoGenerate(t)
        \/ Sanitize(t)
        \/ Send(t)

SpecGotham == InitGotham /\ [][NextGotham]_vars

----------------------------------------------------------------------------
(* mightybadger-test-server: Service                                       *)

Uuids == {"uuid_1", "uuid_2"}

Payload(token) == [error |-> [token |-> token]]

(* serde_json::from_slice::<Payload>(&body).ok(): a JSON object decodes,   *)
(* with the token it carries or none (unknown fields are ignored, error    *)
(* and token are optional); anything else does not.                        *)
from_slice(body) ==
    IF body.kind = "json_object" THEN Some(Payload(body.token)) ELSE None

(* The requests sent to the collector: the routes of serve, and for        *)
(* POST /v1/notices a payload with and without a token, a body that is no  *)
(* payload and a body whose transfer fails.                                *)
Requests ==
    {[method |-> "GET", path |-> "/", body |-> NoBody],
     [method |-> "HEAD", path |-> "/", body |-> NoBody],
     [method |-> "POST", path |-> "/", body |-> Body("json_object", Some("uuid_1"))],
     [method |-> "GET", path |-> "/v1/notices",
      body |-> Body("json_object", Some("uuid_1"))],
     [method |-> "PUT", path |-> "/x", body |-> NoBody]}
        \cup {[method |-> "POST", path |-> "/v1/notices", body |-> b] :
                 b \in {Body("json_object", Some("uuid_1")),
                        Body("json_object", None),
                        Body("text", None),
                        Body("broken", None)}}

(* The server task runs on the runtime of the server thread, which runs    *)
(* it while the thread waits in waiter.await.                              *)
Serving == server.thread = "wait" /\ server.task \in {"running", "draining"}

Open(c) == conns[c].state \notin {"none", "closed"}

(* hyper hands a request to Service::call while the server accepts.        *)
Accept(c, req) ==
    /\ Serving
    /\ server.task = "running"
    /\ conns[c] = NoConn
    /\ conns' = [conns EXCEPT
                    ![c] = Conn("serve", req.method, req.path, req.body, 0, None)]
    /\ UNCHANGED <<cfgVars, ctxVars, repVars, fnVars, tasks, error_data, server>>

Respond(c, status, id) ==
    conns' = [conns EXCEPT ![c].state = "closed", ![c].status = status,
                           ![c].id = id]

(* Service::serve: the routes.                                             *)
Serve(c) ==
    /\ Serving
    /\ conns[c].state = "serve"
    /\ IF conns[c].method \in {"GET", "HEAD"} /\ conns[c].path = "/"
       THEN Respond(c, 301, None)
       ELSE IF conns[c].method = "POST" /\ conns[c].path = "/v1/notices"
       THEN conns' = [conns EXCEPT ![c].state = "read_body"]
       ELSE Respond(c, 404, None)
    /\ UNCHANGED <<cfgVars, ctxVars, repVars, fnVars, tasks, error_data, server>>

(* create_notice: read_body(body).await has the whole body or an error.    *)
ReadBody(c) ==
    /\ Serving
    /\ conns[c].state = "read_body"
    /\ IF conns[c].body.kind = "broken"
       THEN Respond(c, 500, None)
       ELSE conns' = [conns EXCEPT ![c].state = "from_slice"]
    /\ UNCHANGED <<cfgVars, ctxVars, repVars, fnVars, tasks, error_data, server>>

(* create_notice: the body is decoded; the id is the token of the payload  *)
(* or Uuid::new_v4().                                                      *)
FromSlice(c) ==
    /\ Serving
    /\ conns[c].state = "from_slice"
    /\ IF from_slice(conns[c].body) = None
       THEN Respond(c, 400, None)
       ELSE \E new_v4 \in Uuids :
               conns' = [conns EXCEPT
                            ![c].state = "write",
                            ![c].id = Some(unwrap_or(
                                from_slice(conns[c].body)[1].error.token,
                                new_v4))]
    /\ UNCHANGED <<cfgVars, ctxVars, repVars, fnVars, tasks, error_data, server>>

(* create_notice: self.data.write().unwrap()                               *)
DataWrite(c) ==
    /\ Serving
    /\ conns[c].state = "write"
    /\ error_data.writer = 0
    /\ error_data.readers = 0
    /\ error_data' = [error_data EXCEPT !.writer = c]
    /\ conns' = [conns EXCEPT ![c].state = "push"]
    /\ UNCHANGED <<cfgVars, ctxVars, repVars, fnVars, tasks, server>>

(* Mutant: the payload takes the place of the errors recorded before.      *)
ErrorsPushFirst(c) ==
    /\ Serving
    /\ conns[c].state = "push"
    /\ error_data.writer = c
    /\ error_data' = [error_data EXCEPT !.errors = <<from_slice(conns[c].body)[1]>>,
                            !.writer = 0]
    /\ conns' = [conns EXCEPT ![c].state = "created"]
    /\ UNCHANGED <<cfgVars, ctxVars, repVars, fnVars, tasks, server>>

(* create_notice: data.errors.push(body), and the guard is dropped.        *)
ErrorsPush(c) ==
    /\ Serving
    /\ conns[c].state = "push"
    /\ error_data.writer = c
    /\ error_data' = [error_data EXCEPT
                   !.errors = Append(error_data.errors, from_slice(conns[c].body)[1]),
                   !.writer = 0]
    /\ conns' = [conns EXCEPT ![c].state = "created"]
    /\ UNCHANGED <<cfgVars, ctxVars, repVars, fnVars, tasks, server>>

(* create_notice: the response, 201 with the id.                           *)
Created(c) ==
    /\ Serving
    /\ conns[c].state = "created"
    /\ Respond(c, 201, conns[c].id)
    /\ UNCHANGED <<cfgVars, ctxVars, repVars, fnVars, tasks, error_data, server>>

(* A test reads the recorded errors: server.data().read().unwrap()         *)
DataRead ==
    /\ server.main = "idle"
    /\ error_data.writer = 0
    /\ error_data.readers = 0
    /\ error_data' = [error_data EXCEPT !.readers = 1]
    /\ UNCHANGED <<cfgVars, ctxVars, repVars, fnVars, tasks, conns, server>>

(* The test drops its read guard.                                          *)
DataReadDrop ==
    /\ error_data.readers = 1
    /\ error_data' = [error_data EXCEPT !.readers = 0]
    /\ UNCHANGED <<cfgVars, ctxVars, repVars, fnVars, tasks, conns, server>>

(* A collector that serves: new() has returned and the server thread is    *)
(* in waiter.await.                                                        *)
InitService ==
    /\ CfgInit
    /\ environ = EnvUnset
    /\ policy = "prefer_readers"
    /\ CtxInit
    /\ RepInit
    /\ FnInit
    /\ TasksInit
    /\ error_data = ErrorData(<<>>, 0, 0)
    /\ conns = [c \in ConnIds |-> NoConn]
    /\ server = TestServer("idle", "wait", "running")

NextService ==
    \/ \E c \in ConnIds :
          \/ \E req \in Requests : Accept(c, req)
          \/ Serve(c)
          \/ ReadBody(c)
          \/ FromSlice(c)
          \/ DataWrite(c)
          \/ ErrorsPush(c)
          \/ Created(c)
    \/ DataRead
    \/ DataReadDrop

SpecService == InitService /\ [][NextService]_vars

----------------------------------------------------------------------------
(* mightybadger-test-server: sync::TestServer                              *)

(* The calls made on a TestServer before it is dropped.                    *)
MaxCalls == 3

Signalled == server.sends > 0

(* sync::TestServer::new: the runtime and the channel are made, the thread *)
(* is spawned, and the caller waits in rx.recv().                          *)
New ==
    /\ server.main = "none"
    /\ server' = [server EXCEPT !.main = "recv", !.thread = "spawned"]
    /\ UNCHANGED <<cfgVars, ctxVars, repVars, fnVars, tasks, error_data, conns>>

(* The server thread: AsyncTestServer::new() binds the address, makes the  *)
(* oneshot channel and spawns the server task; take_shutdown() takes the   *)
(* task handle; the thread arrives at tx.send(inner).                      *)
AsyncNew ==
    /\ server.thread = "spawned"
    /\ server' = [server EXCEPT !.thread = "send", !.task = "running",
                                !.bound = TRUE, !.start_shutdown = TRUE]
    /\ UNCHANGED <<cfgVars, ctxVars, repVars, fnVars, tasks, error_data, conns>>

(* Server::bind panics when the address cannot be bound: the thread ends   *)
(* and drops tx.                                                           *)
BindPanics ==
    /\ server.thread = "spawned"
    /\ server' = [server EXCEPT !.thread = "panicked"]
    /\ UNCHANGED <<cfgVars, ctxVars, repVars, fnVars, tasks, error_data, conns>>

(* The rendezvous of tx.send(inner) and rx.recv(): new returns the struct, *)
(* the server thread goes on to waiter.await.                              *)
Recv ==
    /\ server.main = "recv"
    /\ server.thread = "send"
    /\ server' = [server EXCEPT !.main = "idle", !.thread = "wait",
                                !.thread_handle = TRUE, !.returned = "new"]
    /\ UNCHANGED <<cfgVars, ctxVars, repVars, fnVars, tasks, error_data, conns>>

(* rx.recv() fails when the sender is gone: expect panics in new.          *)
RecvFails ==
    /\ server.main = "recv"
    /\ server.thread = "panicked"
    /\ server' = [server EXCEPT !.main = "panicked"]
    /\ UNCHANGED <<cfgVars, ctxVars, repVars, fnVars, tasks, error_data, conns>>

(* AsyncTestServer::start_shutdown on the record: the sender is taken and  *)
(* used once.                                                              *)
start_shutdown(srv) ==
    [srv EXCEPT !.start_shutdown = FALSE,
                !.sends = IF srv.start_shutdown THEN srv.sends + 1 ELSE srv.sends]

(* sync::TestServer::start_shutdown                                        *)
StartShutdown ==
    /\ server.main = "idle"
    /\ server.calls < MaxCalls
    /\ server' = [start_shutdown(server) EXCEPT !.calls = server.calls + 1,
                                                !.call = "start_shutdown",
                                                !.returned = "start_shutdown"]
    /\ UNCHANGED <<cfgVars, ctxVars, repVars, fnVars, tasks, error_data, conns>>

(* sync::TestServer::take_shutdown                                         *)
TakeShutdown ==
    /\ server.main = "idle"
    /\ server.calls < MaxCalls
    /\ server' = [server EXCEPT !.thread_handle = FALSE,
                                !.taken = server.taken \/ server.thread_handle,
                                !.calls = server.calls + 1,
                                !.call = "take_shutdown",
                                !.returned = "take_shutdown"]
    /\ UNCHANGED <<cfgVars, ctxVars, repVars, fnVars, tasks, error_data, conns>>

(* Where the owner is after the call: the struct is gone after its drop.   *)
After(call) == IF call = "drop" THEN "gone" ELSE "idle"

(* sync::TestServer::shutdown, called as such or from Drop::drop:          *)
(* start_shutdown, then the thread handle is taken and joined, or the call *)
(* returns when there is none.                                             *)
Shutdown(call) ==
    /\ server.main = "idle"
    /\ call = "shutdown" => server.calls < MaxCalls
    /\ server' =
          IF server.thread_handle
          THEN [start_shutdown(server) EXCEPT !.thread_handle = FALSE,
                                              !.main = "join",
                                              !.calls = server.calls + 1,
                                              !.call = call,
                                              !.returned = "none"]
          ELSE [start_shutdown(server) EXCEPT !.main = After(call),
                                              !.calls = server.calls + 1,
                                              !.call = call,
                                              !.returned = call]
    /\ UNCHANGED <<cfgVars, ctxVars, repVars, fnVars, tasks, error_data, conns>>

(* Mutant: thread.join() does not wait.                                    *)
JoinDetached ==
    /\ server.main = "join"
    /\ server' = [server EXCEPT !.main = After(server.call),
                                !.returned = server.call]
    /\ UNCHANGED <<cfgVars, ctxVars, repVars, fnVars, tasks, error_data, conns>>

(* thread.join().ok() returns when the server thread has ended.            *)
Join ==
    /\ server.main = "join"
    /\ server.thread = "terminated"
    /\ server' = [server EXCEPT !.main = After(server.call),
                                !.returned = server.call]
    /\ UNCHANGED <<cfgVars, ctxVars, repVars, fnVars, tasks, error_data, conns>>

(* with_graceful_shutdown: rx has the signal; the server accepts no more.  *)
GracefulShutdown ==
    /\ server.thread = "wait"
    /\ server.task = "running"
    /\ Signalled
    /\ server' = [server EXCEPT !.task = "draining"]
    /\ UNCHANGED <<cfgVars, ctxVars, repVars, fnVars, tasks, error_data, conns>>

(* The server future completes when the connections it has are done.       *)
ServerDone ==
    /\ server.thread = "wait"
    /\ server.task = "draining"
    /\ \A c \in ConnIds : ~Open(c)
    /\ server' = [server EXCEPT !.task = "done"]
    /\ UNCHANGED <<cfgVars, ctxVars, repVars, fnVars, tasks, error_data, conns>>

(* waiter.await.ok() returns, block_on returns, the thread ends.           *)
ThreadEnds ==
    /\ server.thread = "wait"
    /\ server.task = "done"
    /\ server' = [server EXCEPT !.thread = "terminated"]
    /\ UNCHANGED <<cfgVars, ctxVars, repVars, fnVars, tasks, error_data, conns>>

(* A test makes a collector, calls it in any order up to MaxCalls times    *)
(* and drops it, while the first connection brings a request.              *)
InitServer ==
    /\ CfgInit
    /\ environ = EnvUnset
    /\ policy = "prefer_readers"
    /\ CtxInit
    /\ RepInit
    /\ FnInit
    /\ ExtInit

FirstConn == {c \in ConnIds : c = 1}

(* The steps of the server thread and of the tasks on its runtime once the *)
(* request is there, and the return of join: they are taken when they can  *)
(* be.                                                                     *)
ServerSteps ==
    \/ AsyncNew
    \/ BindPanics
    \/ Recv
    \/ RecvFails
    \/ Join
    \/ GracefulShutdown
    \/ ServerDone
    \/ ThreadEnds
    \/ \E c \in FirstConn :
          \/ Serve(c)
          \/ FromSlice(c)
          \/ DataWrite(c)
          \/ ErrorsPush(c)
          \/ Created(c)

NextServer ==
    \/ New
    \/ StartShutdown
    \/ TakeShutdown
    \/ \E call \in {"shutdown", "drop"} : Shutdown(call)
    \/ ServerSteps
    \/ \E c \in FirstConn :
          \/ \E req \in Requests : Accept(c, req)
          \/ ReadBody(c)

SpecServer == InitServer /\ [][NextServer]_vars /\ WF_vars(ServerSteps)

----------------------------------------------------------------------------
(* lib.rs: install_hook                                                    *)

(* A thread calls install_hook() (on its own or as the second step of      *)
(* setup()): it arrives at INSTALL_ONCE.call_once.                         *)
InstallHook(t) ==
    /\ pc[t] = "idle"
    /\ Goto(t, "inst_once")
    /\ UNCHANGED <<CONFIG, CONFIG_PROXY, script, ip, guards, pre, last,
                   applied, nconf, environ, policy, fnVars, extVars, ctxVars, repVars>>

(* Mutant: the closure runs on every call, without the Once.               *)
CallOnceRunsAgain(t) ==
    /\ pc[t] = "inst_once"
    /\ INSTALL_ONCE.state # "running"
    /\ INSTALL_ONCE' = Once("running", HOOK)
    /\ HOOK' = <<DefaultHook>>
    /\ Goto(t, "inst_set")
    /\ UNCHANGED <<CONFIG, CONFIG_PROXY, script, ip, guards, pre, last,
                   applied, nconf, environ, policy, fnVars, extVars, ctxVars,
                   resume, attempt, requests, network, outcome>>

(* call_once runs the closure on the first thread to arrive: take_hook()   *)
(* hands over the current hook and leaves the default hook in its place.   *)
CallOnceRuns(t) ==
    /\ pc[t] = "inst_once"
    /\ INSTALL_ONCE.state = "new"
    /\ INSTALL_ONCE' = Once("running", HOOK)
    /\ HOOK' = <<DefaultHook>>
    /\ Goto(t, "inst_set")
    /\ UNCHANGED <<CONFIG, CONFIG_PROXY, script, ip, guards, pre, last,
                   applied, nconf, environ, policy, fnVars, extVars, ctxVars,
                   resume, attempt, requests, network, outcome>>

(* set_hook: old_hook, then honeybadger_panic_hook; the closure returns    *)
(* and the Once is complete.                                               *)
SetHook(t) ==
    /\ pc[t] = "inst_set"
    /\ HOOK' = Append(INSTALL_ONCE.old_hook, HoneybadgerHook)
    /\ INSTALL_ONCE' = Once("done", INSTALL_ONCE.old_hook)
    /\ Goto(t, "idle")
    /\ UNCHANGED <<CONFIG, CONFIG_PROXY, script, ip, guards, pre, last,
                   applied, nconf, environ, policy, fnVars, extVars, ctxVars,
                   resume, attempt, requests, network, outcome>>

(* call_once returns at once when the Once is complete; while another      *)
(* thread runs the closure the call waits.                                 *)
CallOnceSkips(t) ==
    /\ pc[t] = "inst_once"
    /\ INSTALL_ONCE.state = "done"
    /\ Goto(t, "idle")
    /\ UNCHANGED <<CONFIG, CONFIG_PROXY, script, ip, guards, pre, last,
                   applied, nconf, environ, policy, fnVars, extVars, ctxVars, repVars>>

(* install_hook and setup called any number of times by the threads, with  *)
(* the default hook or a hook of the host in place at the start; threads   *)
(* panic at any moment.  No request context is set, so payload.sanitize()  *)
(* has nothing to read the configuration for.                              *)
InitInstall ==
    /\ CfgInitAt([ConfigDefault EXCEPT !.api_key = Some(S_abcdef)])
    /\ environ = EnvTypical
    /\ policy = "prefer_readers"
    /\ CtxInit
    /\ FnInit
    /\ ExtInit
    /\ network = NoResponse("io_error")
    /\ HOOK \in {<<DefaultHook>>, <<UserHook>>}
    /\ INSTALL_ONCE = Once("new", <<>>)
    /\ resume = [t \in Threads |-> "idle"]
    /\ attempt = [t \in Threads |-> NoAttempt]
    /\ requests = [t \in Threads |-> NoRequests]
    /\ outcome = Err("none")

NextInstall ==
    \E t \in Threads :
        \/ InstallHook(t)
        \/ CallOnceRuns(t)
        \/ SetHook(t)
        \/ CallOnceSkips(t)
        \/ Setup(t)
        \/ ThreadPanic(t, PanicPayload("str", S_panic_test))
        \/ ThreadExit(t)
        \/ NotifyInternal(t)
        \/ ServerInfoGenerate(t)
        \/ Send(t)

SpecInstall == InitInstall /\ [][NextInstall]_vars

----------------------------------------------------------------------------
(* payload.rs: RequestInfo::sanitize and RequestConfig::filter_key         *)

MaxEntries == 2

S_password == <<"p", "a", "s", "s", "w", "o", "r", "d">>
S_my_password ==
    <<"m", "y", "_", "p", "a", "s", "s", "w", "o", "r", "d">>
S_HTTP_AUTHORIZATION ==
    <<"H", "T", "T", "P", "_", "A", "U", "T", "H", "O", "R", "I", "Z", "A", "T",
      "I", "O", "N">>
S_pass == <<"p", "a", "s", "s">>
S_ba == <<"b", "a">>
S_ab == <<"a", "b">>
S_a == <<"a">>
S_v == <<"v">>
S_FILTERED == <<"[", "F", "I", "L", "T", "E", "R", "E", "D", "]">>

(* str::contains(pattern): the pattern occurs at some offset.              *)
contains(key, s) ==
    \E i \in 0 .. Len(key) - Len(s) : SubSeq(key, i + 1, i + Len(s)) = s

Elements(seq) == {seq[i] : i \in 1 .. Len(seq)}

(* Mutant: a key is filtered only when it equals a filter key.             *)
filter_key_equal(request_config, key) ==
    IF is_some(request_config.filter_keys)
    THEN \E s \in Elements(unwrap(request_config.filter_keys)) : key = s
    ELSE \E s \in {S_password, S_HTTP_AUTHORIZATION} : key = s

(* Mutant: the configured filter keys are added to the two default ones.   *)
filter_key_extends(request_config, key) ==
    \/ \E s \in {S_password, S_HTTP_AUTHORIZATION} : contains(key, s)
    \/ /\ is_some(request_config.filter_keys)
       /\ \E s \in Elements(unwrap(request_config.filter_keys)) : contains(key, s)

(* RequestConfig::filter_key                                               *)
filter_key(request_config, key) ==
    IF is_some(request_config.filter_keys)
    THEN \E s \in Elements(unwrap(request_config.filter_keys)) : contains(key, s)
    ELSE \E s \in {S_password, S_HTTP_AUTHORIZATION} : contains(key, s)

(* serde_json::Value: strings and numbers (a number by its digits).        *)
JsonString(s) == [type |-> "String", value |-> s]

JsonNumber(n) == [type |-> "Number", value |-> n]

StringMapNames == {"cgi_data", "params", "session"}

JsonMapNames == {"context", "local_variables"}

(* RequestInfo::sanitize: the four maps, value by value.                   *)
sanitize(req, config) ==
    [n \in DOMAIN req |->
        IF n \in StringMapNames
        THEN [k \in DOMAIN req[n] |->
                 IF filter_key(config.request, k) THEN S_FILTERED ELSE req[n][k]]
        ELSE IF n = "context"
        THEN [k \in DOMAIN req[n] |->
                 IF filter_key(config.request, k) THEN JsonString(S_FILTERED)
                                                  ELSE req[n][k]]
        ELSE req[n]]

(* The requests sanitize is applied to: up to MaxEntries entries over the  *)
(* five maps, under keys that contain a filter key, differ from one in     *)
(* case or length, or are unrelated; values that are ordinary, and values  *)
(* that are the marker already.                                            *)
SanitizeKeys == {S_my_password, S_HTTP_AUTHORIZATION, S_pass, S_ba}

StringEntries ==
    [map : {"cgi_data"}, key : SanitizeKeys, value : {S_v, S_FILTERED}]
        \cup [map : {"params"}, key : {S_my_password, S_pass},
              value : {S_v, S_FILTERED}]
        \cup [map : {"session"}, key : {S_ba}, value : {S_v, S_FILTERED}]

JsonEntries ==
    [map : {"context"}, key : {S_my_password, S_ba},
     value : {JsonString(S_v), JsonNumber(<<"1">>), JsonString(S_FILTERED)}]
        \cup [map : {"local_variables"}, key : {S_my_password},
              value : {JsonString(S_v)}]

RECURSIVE EntrySets(_, _)
EntrySets(entries, n) ==
    IF n = 0 THEN {{}}
    ELSE LET smaller == EntrySets(entries, n - 1)
         IN  smaller \cup {S \cup {e} : S \in smaller, e \in entries}

MapOf(S, n) ==
    LET here == {e \in S : e.map = n}
    IN  [k \in {e.key : e \in here} |-> (CHOOSE e \in here : e.key = k).value]

(* The fields of RequestInfo that are no maps.                             *)
ScalarNames == {"url", "component", "action"}

S_url == <<"/", "?">> \o S_password \o <<"=">> \o S_v

RequestOf(S, J) ==
    [n \in StringMapNames \cup JsonMapNames \cup ScalarNames |->
        IF n \in StringMapNames THEN MapOf(S, n)
        ELSE IF n \in JsonMapNames THEN MapOf(J, n)
        ELSE IF n = "url" THEN S_url
        ELSE S_password]

OneValuePerKey(S) == \A e, f \in S : e.map = f.map /\ e.key = f.key => e = f

SanitizeRequests ==
    {RequestOf(S, J) :
        S \in {S \in EntrySets(StringEntries, MaxEntries) : OneValuePerKey(S)},
        J \in {J \in EntrySets(JsonEntries, MaxEntries - 1) : OneValuePerKey(J)}}

FilterKeys ==
    {None, Some(<<>>), Some(<<S_ab>>), Some(<<S_a, S_pass>>), Some(<<S_v, <<>>>>)}

----------------------------------------------------------------------------
(* btparse.rs: parse                                                       *)

(* Line numbers are u32.  The model keeps LineBits of the 32 bits, so that *)
(* the largest line number and the saturating arithmetic at it are within  *)
(* reach of the inputs.                                                    *)
LineBits == 4

U32_MAX == 2 ^ LineBits - 1

(* <u32 as FromStr>::from_str(s).ok()                                      *)
parse_u32(s) ==
    LET digits == IF s # <<>> /\ s[1] = "+" THEN Tail(s) ELSE s
    IN  IF digits = <<>> \/ \E i \in 1 .. Len(digits) : digits[i] \notin Digits
        THEN None
        ELSE IF DecimalValue(digits) > U32_MAX THEN None
        ELSE Some(DecimalValue(digits))

(* <u32 as ToString>::to_string                                          *)
DigitChar(d) == CHOOSE c \in Digits : DigitVal(c) = d

RECURSIVE to_string(_)
to_string(n) ==
    IF n < 10 THEN <<DigitChar(n)>>
    ELSE Append(to_string(n \div 10), DigitChar(n % 10))

HexDigits == Digits \cup {"a", "b", "c", "d", "e", "f", "A", "B", "C", "D", "E", "F"}

starts_with(s, prefix) ==
    /\ Len(s) >= Len(prefix)
    /\ SubSeq(s, 1, Len(prefix)) = prefix

(* &s[pos..] for a 0-based byte position pos.                              *)
SliceFrom(s, pos) == SubSeq(s, pos + 1, Len(s))

(* &s[..pos]                                                               *)
SliceTo(s, pos) == SubSeq(s, 1, pos)

(* s.find(':') and s.rfind(':'): the 0-based position of the first / last  *)
(* character c.                                                            *)
Positions(s, c) == {i \in 0 .. Len(s) - 1 : s[i + 1] = c}

find(s, c) ==
    IF Positions(s, c) = {} THEN None
    ELSE Some(CHOOSE i \in Positions(s, c) : \A j \in Positions(s, c) : i <= j)

rfind(s, c) ==
    IF Positions(s, c) = {} THEN None
    ELSE Some(CHOOSE i \in Positions(s, c) : \A j \in Positions(s, c) : i >= j)

(* s.find(|c| !c.is_digit(16)).unwrap_or(s.len())                          *)
HexRun(s) ==
    LET stops == {i \in 0 .. Len(s) - 1 : s[i + 1] \notin HexDigits}
    IN  IF stops = {} THEN Len(s)
        ELSE CHOOSE i \in stops : \A j \in stops : i <= j

BacktraceLine(line, file, method) ==
    [line |-> line, file |-> file, method |-> method]

S_stack_backtrace ==
    <<"s", "t", "a", "c", "k", " ", "b", "a", "c", "k", "t", "r", "a", "c",
      "e", ":">>

S_at == <<"a", "t", " ">>

S_0x == <<"0", "x">>

(* The locals of parse before the first line.                              *)
ParseStart == [last_file |-> None, last_method |-> None, bt_lines |-> <<>>]

(* Mutant: every flush makes an entry, named "<unknown>" when no method    *)
(* is pending.                                                             *)
flush_unknown(st) ==
    [last_file |-> None,
     last_method |-> None,
     bt_lines |->
         Append(st.bt_lines,
                BacktraceLine(IF st.last_file # None
                              THEN Some(st.last_file[1].line) ELSE None,
                              IF st.last_file # None
                              THEN Some(st.last_file[1].file) ELSE None,
                              IF st.last_method # None
                              THEN st.last_method[1]
                              ELSE <<"<", "u", "n", "k", "n", "o", "w", "n", ">">>))]

(* Mutant: a location that no method line claimed stays in last_file.      *)
flush_keeps_file(st) ==
    IF st.last_method # None
    THEN [last_file |-> None,
          last_method |-> None,
          bt_lines |->
              Append(st.bt_lines,
                     IF st.last_file # None
                     THEN BacktraceLine(Some(st.last_file[1].line),
                                        Some(st.last_file[1].file),
                                        st.last_method[1])
                     ELSE BacktraceLine(None, None, st.last_method[1]))]
    ELSE st

(* flush!(): the pending method becomes an entry, with the pending         *)
(* location if there is one; both are taken.                               *)
flush(st) ==
    IF st.last_method # None
    THEN [last_file |-> None,
          last_method |-> None,
          bt_lines |->
              Append(st.bt_lines,
                     IF st.last_file # None
                     THEN BacktraceLine(Some(st.last_file[1].line),
                                        Some(st.last_file[1].file),
                                        st.last_method[1])
                     ELSE BacktraceLine(None, None, st.last_method[1]))]
    ELSE [st EXCEPT !.last_file = None]

(* Skip "<frameno>:"                                                       *)
skip_frameno(line) ==
    IF line # <<>> /\ line[1] \in Digits
    THEN SliceFrom(line, IF find(line, ":") # None THEN find(line, ":")[1] + 1
                         ELSE Len(line))
    ELSE line

(* Skip "0x<ptr>"                                                          *)
skip_ptr(line) ==
    IF starts_with(line, S_0x)
    THEN SliceFrom(SliceFrom(line, 2), HexRun(SliceFrom(line, 2)))
    ELSE line

(* Skip "-"                                                                *)
skip_dash(line) == IF starts_with(line, <<"-">>) THEN SliceFrom(line, 1) ELSE line

(* Mutant: a number that does not parse is 0.                              *)
location_default_zero(line) ==
    IF rfind(line, ":") # None
    THEN [file |-> SliceTo(line, rfind(line, ":")[1]),
          line |-> IF parse_u32(SliceFrom(line, rfind(line, ":")[1] + 1)) # None
                   THEN parse_u32(SliceFrom(line, rfind(line, ":")[1] + 1))[1]
                   ELSE 0]
    ELSE [file |-> line, line |-> 0]

(* Mutant: the file ends at the first colon.                               *)
location_at_first_colon(line) ==
    IF find(line, ":") # None
    THEN [file |-> SliceTo(line, find(line, ":")[1]),
          line |-> IF parse_u32(SliceFrom(line, find(line, ":")[1] + 1)) # None
                   THEN parse_u32(SliceFrom(line, find(line, ":")[1] + 1))[1]
                   ELSE 1]
    ELSE [file |-> line, line |-> 1]

(* at <file>:<line>, after "at " and the spaces that follow it: the file   *)
(* ends at the last colon; a number that does not parse is 1.              *)
location(line) ==
    IF rfind(line, ":") # None
    THEN [file |-> SliceTo(line, rfind(line, ":")[1]),
          line |-> IF parse_u32(SliceFrom(line, rfind(line, ":")[1] + 1)) # None
                   THEN parse_u32(SliceFrom(line, rfind(line, ":")[1] + 1))[1]
                   ELSE 1]
    ELSE [file |-> line, line |-> 1]

(* What is left of a line of the trace after the frame number, the         *)
(* address and the dash are skipped.                                       *)
Stripped(raw) ==
    trim_start(skip_dash(trim_start(skip_ptr(trim_start(skip_frameno(trim(raw)))))))

(* One turn of the loop over bt.lines().                                   *)
parse_line(st, raw) ==
    IF trim(raw) = S_stack_backtrace THEN st
    ELSE IF Stripped(raw) = <<>> THEN st
    ELSE IF starts_with(Stripped(raw), S_at)
    THEN [st EXCEPT !.last_file =
              Some(location(trim_start(SliceFrom(Stripped(raw), 3))))]
    ELSE [flush(st) EXCEPT !.last_method = Some(Stripped(raw))]

RECURSIVE parse_lines(_, _)
parse_lines(st, lines) ==
    IF lines = <<>> THEN st
    ELSE parse_lines(parse_line(st, Head(lines)), Tail(lines))

(* parse(bt), bt given as bt.to_string().lines().                          *)
parse(lines) == flush(parse_lines(ParseStart, lines)).bt_lines

----------------------------------------------------------------------------
(* btparse.rs: trim_backtrace                                              *)

trim_paths ==
    <<<<"h", "o", "n", "e", "y", "b", "a", "d", "g", "e", "r", ":", ":",
        "n", "o", "t", "i", "f", "y", ":", ":">>,
      <<"b", "a", "c", "k", "t", "r", "a", "c", "e", ":", ":", "b", "a",
        "c", "k", "t", "r", "a", "c", "e", ":", ":", "c", "a", "p", "t",
        "u", "r", "e", ":", ":", "B", "a", "c", "k", "t", "r", "a", "c",
        "e", ":", ":", "n", "e", "w", ":", ":">>,
      <<"b", "a", "c", "k", "t", "r", "a", "c", "e", ":", ":", "b", "a",
        "c", "k", "t", "r", "a", "c", "e", ":", ":", "c", "a", "p", "t",
        "u", "r", "e", ":", ":", "B", "a", "c", "k", "t", "r", "a", "c",
        "e", ":", ":", "n", "e", "w", "_", "u", "n", "r", "e", "s", "o",
        "l", "v", "e", "d", ":", ":">>,
      <<"f", "a", "i", "l", "u", "r", "e", ":", ":", "b", "a", "c", "k",
        "t", "r", "a", "c", "e", ":", ":", "B", "a", "c", "k", "t", "r",
        "a", "c", "e", ":", ":", "n", "e", "w", ":", ":">>,
      <<"<", "f", "a", "i", "l", "u", "r", "e", ":", ":", "b", "a", "c",
        "k", "t", "r", "a", "c", "e", ":", ":", "B", "a", "c", "k", "t",
        "r", "a", "c", "e", " ", "a", "s", " ", "c", "o", "r", "e", ":",
        ":", "d", "e", "f", "a", "u", "l", "t", ":", ":", "D", "e", "f",
        "a", "u", "l", "t", ">", ":", ":", "d", "e", "f", "a", "u", "l",
        "t", ":", ":">>,
      <<"f", "a", "i", "l", "u", "r", "e", ":", ":", "f", "a", "i", "l",
        "u", "r", "e", ":", ":", "e", "r", "r", "o", "r", "_", "m", "e",
        "s", "s", "a", "g", "e", ":", ":", "e", "r", "r", "_", "m", "s",
        "g", ":", ":">>,
      <<"<", "f", "a", "i", "l", "u", "r", "e", ":", ":", "c", "o", "n",
        "t", "e", "x", "t", ":", ":", "C", "o", "n", "t", "e", "x", "t",
        "<", "D", ">", ">", ":", ":", "n", "e", "w", ":", ":">>,
      <<"s", "t", "d", ":", ":", "p", "a", "n", "i", "c", "k", "i", "n",
        "g", ":", ":", "b", "e", "g", "i", "n", "_", "p", "a", "n", "i",
        "c", ":", ":">>,
      <<"c", "o", "r", "e", ":", ":", "p", "a", "n", "i", "c", "k", "i",
        "n", "g", ":", ":", "p", "a", "n", "i", "c", ":", ":">>,
      <<"c", "o", "r", "e", ":", ":", "p", "a", "n", "i", "c", "k", "i",
        "n", "g", ":", ":", "p", "a", "n", "i", "c", "_", "b", "o", "u",
        "n", "d", "s", "_", "c", "h", "e", "c", "k", ":", ":">>,
      <<"<", "c", "o", "r", "e", ":", ":", "o", "p", "t", "i", "o", "n",
        ":", ":", "O", "p", "t", "i", "o", "n", "<", "T", ">", ">", ":",
        ":", "u", "n", "w", "r", "a", "p", ":", ":">>,
      <<"<", "c", "o", "r", "e", ":", ":", "o", "p", "t", "i", "o", "n",
        ":", ":", "O", "p", "t", "i", "o", "n", "<", "T", ">", ">", ":",
        ":", "e", "x", "p", "e", "c", "t", ":", ":">>,
      <<"<", "c", "o", "r", "e", ":", ":", "r", "e", "s", "u", "l", "t",
        ":", ":", "R", "e", "s", "u", "l", "t", "<", "T", ",", " ", "E",
        ">", ">", ":", ":", "u", "n", "w", "r", "a", "p", ":", ":">>,
      <<"<", "c", "o", "r", "e", ":", ":", "r", "e", "s", "u", "l", "t",
        ":", ":", "R", "e", "s", "u", "l", "t", "<", "T", ",", " ", "E",
        ">", ">", ":", ":", "e", "x", "p", "e", "c", "t", ":", ":">>,
      <<"<", "c", "o", "r", "e", ":", ":", "r", "e", "s", "u", "l", "t",
        ":", ":", "R", "e", "s", "u", "l", "t", "<", "T", ",", " ", "E",
        ">", ">", ":", ":", "u", "n", "w", "r", "a", "p", "_", "e", "r",
        "r", ":", ":">>,
      <<"<", "c", "o", "r", "e", ":", ":", "r", "e", "s", "u", "l", "t",
        ":", ":", "R", "e", "s", "u", "l", "t", "<", "T", ",", " ", "E",
        ">", ">", ":", ":", "e", "x", "p", "e", "c", "t", "_", "e", "r",
        "r", ":", ":">>>>

(* bt_line.method starts with one of trim_paths.                           *)
Trimmed(bt_line) ==
    \E i \in 1 .. Len(trim_paths) : starts_with(bt_line.method, trim_paths[i])

(* Mutant: position, the first match, in the place of rposition.           *)
trim_backtrace_first(bt_lines) ==
    LET matches == {i \in 0 .. Len(bt_lines) - 1 : Trimmed(bt_lines[i + 1])}
        pos == IF matches = {} THEN 0
               ELSE (CHOOSE i \in matches : \A j \in matches : i <= j) + 1
    IN  SliceFrom(bt_lines, pos)

(* rposition(..).map(|x| x + 1).unwrap_or(0), then bt_lines.drain(..pos).  *)
trim_backtrace(bt_lines) ==
    LET matches == {i \in 0 .. Len(bt_lines) - 1 : Trimmed(bt_lines[i + 1])}
        pos == IF matches = {} THEN 0
               ELSE (CHOOSE i \in matches : \A j \in matches : i >= j) + 1
    IN  SliceFrom(bt_lines, pos)

----------------------------------------------------------------------------
(* btparse.rs: decorate                                                    *)

saturating_sub(a, b) == IF a < b THEN 0 ELSE a - b

saturating_add(a, b) == IF a > U32_MAX - b THEN U32_MAX ELSE a + b

(* line.saturating_sub(1), then skip and upto from it.                     *)
window(line) ==
    [skip |-> saturating_sub(saturating_sub(line, 1), 2),
     upto |-> saturating_add(saturating_sub(line, 1), 3)]

(* source.insert(lineno, line) on a BTreeMap.                              *)
insert(source, key, value) ==
    [k \in DOMAIN source \cup {key} |-> IF k = key THEN value ELSE source[k]]

(* An open file: the lines read_line gives, each as it returns them, and   *)
(* what it gives after them: Ok(0), the end of the file, or Err (the file  *)
(* is a directory, the next bytes are not UTF-8, the disk fails).          *)
OpenFile(lines, err) == [lines |-> lines, err |-> err]

(* file.read_line(&mut line) with lineno lines read before.                *)
read_line(file, lineno) ==
    IF lineno < Len(file.lines)
    THEN [ok |-> TRUE, line |-> file.lines[lineno + 1]]
    ELSE [ok |-> ~file.err, line |-> <<>>]

(* for lineno in 0..upto: read_line, break at the end of the file or at    *)
(* an error, insert under lineno + 1 from skip on.                         *)
RECURSIVE read_lines(_, _, _, _)
read_lines(file, lineno, w, source) ==
    IF lineno >= w.upto THEN source
    ELSE IF ~read_line(file, lineno).ok THEN source
    ELSE IF Len(read_line(file, lineno).line) = 0 THEN source
    ELSE read_lines(file, lineno + 1, w,
                    IF lineno >= w.skip
                    THEN insert(source, saturating_add(lineno, 1),
                                read_line(file, lineno).line)
                    ELSE source)

BacktraceEntry(number, file, method, source) ==
    [number |-> number, file |-> file, method |-> method, source |-> source]

(* Mutant: a file that cannot be opened gives an empty source.             *)
decorate_line_empty_source(bt_line, opened) ==
    BacktraceEntry(
        IF bt_line.line # None THEN Some(to_string(bt_line.line[1])) ELSE None,
        bt_line.file,
        bt_line.method,
        IF bt_line.line # None /\ bt_line.file # None
        THEN IF opened # None
             THEN Some(read_lines(opened[1], 0, window(bt_line.line[1]), <<>>))
             ELSE Some(<<>>)
        ELSE None)

(* One frame of decorate.  opened is File::open(&file): None when it       *)
(* fails, the open file otherwise.                                         *)
decorate_line(bt_line, opened) ==
    BacktraceEntry(
        IF bt_line.line # None THEN Some(to_string(bt_line.line[1])) ELSE None,
        bt_line.file,
        bt_line.method,
        IF bt_line.line # None /\ bt_line.file # None /\ opened # None
        THEN Some(read_lines(opened[1], 0, window(bt_line.line[1]), <<>>))
        ELSE None)

(* decorate(bt_lines), the files on disk given by name.                    *)
decorate(bt_lines, disk) ==
    [i \in 1 .. Len(bt_lines) |->
        decorate_line(bt_lines[i],
                      IF bt_lines[i].file # None THEN disk[bt_lines[i].file[1]]
                                                 ELSE None)]

(* parse_and_decorate(bt)                                                  *)
parse_and_decorate(lines, disk) == decorate(trim_backtrace(parse(lines)), disk)

----------------------------------------------------------------------------
(* lib.rs: the causes of a report                                          *)

(* An error as notify_internal sees it: through which of the two traits    *)
(* it was given, and the chain of errors that cause() / source() leads     *)
(* along, the error itself first.  A link has the class error_class gives  *)
(* it, the message to_string() gives it, and the backtrace it carries.     *)
FailOrError(trait, chain) == [trait |-> trait, chain |-> chain]

(* FailOrError::cause                                                      *)
cause(error) ==
    IF Len(error.chain) > 1 THEN Some(FailOrError(error.trait, Tail(error.chain)))
    ELSE None

(* FailOrError::backtrace: a backtrace only through the Fail trait.        *)
backtrace(error) ==
    IF error.trait = "Fail" THEN Head(error.chain).backtrace ELSE None

ErrorCause(error, disk) ==
    [class |-> Head(error.chain).class,
     message |-> Head(error.chain).message,
     backtrace |-> IF backtrace(error) # None
                   THEN Some(parse_and_decorate(backtrace(error)[1], disk))
                   ELSE None]

(* while let Some(error) = opterror { causes.push(..);                     *)
(*                                    opterror = error.cause(); }          *)
RECURSIVE causes_loop(_, _, _)
causes_loop(opterror, disk, causes) ==
    IF opterror = None THEN causes
    ELSE causes_loop(cause(opterror[1]), disk,
                     Append(causes, ErrorCause(opterror[1], disk)))

(* Mutant: the walk starts at the error itself.                            *)
CausesFromSelf(error, disk) == causes_loop(Some(error), disk, <<>>)

(* let causes = { let mut opterror = error.cause(); ... }                  *)
Causes(error, disk) == causes_loop(cause(error), disk, <<>>)

----------------------------------------------------------------------------
(* plugin.rs: add_plugin and decorate_with_plugins                         *)

MaxPlugins == 3

(* What Plugin::decorate returns: Ok(true), Ok(false) or Err(PluginError). *)
Decorations == {"claims", "declines", "fails"}

(* add_plugin: plugins.push(plugin)                                        *)
add_plugin(plugins, plugin) == Append(plugins, plugin)

(* PLUGINS after the given add_plugin calls, made in that order.           *)
RECURSIVE Registered(_)
Registered(calls) ==
    IF calls = <<>> THEN <<>>
    ELSE add_plugin(Registered(SubSeq(calls, 1, Len(calls) - 1)),
                    calls[Len(calls)])

(* Mutant: every plugin is tried, whatever the earlier ones returned.      *)
RECURSIVE decorate_all_from(_, _, _)
decorate_all_from(plugins, i, invoked) ==
    IF i > Len(plugins) THEN [result |-> "Ok", invoked |-> invoked]
    ELSE IF plugins[i] = "fails"
         THEN [result |-> "Err", invoked |-> Append(invoked, i)]
         ELSE decorate_all_from(plugins, i + 1, Append(invoked, i))

(* decorate_with_plugins: the for loop from plugin i on; invoked lists the *)
(* plugins whose decorate has been called, in call order.                  *)
RECURSIVE decorate_from(_, _, _)
decorate_from(plugins, i, invoked) ==
    IF i > Len(plugins) THEN [result |-> "Ok", invoked |-> invoked]
    ELSE IF plugins[i] = "fails"
         THEN [result |-> "Err", invoked |-> Append(invoked, i)]
         ELSE IF plugins[i] = "claims"
              THEN [result |-> "Ok", invoked |-> Append(invoked, i)]
              ELSE decorate_from(plugins, i + 1, Append(invoked, i))

decorate_with_plugins(plugins) == decorate_from(plugins, 1, <<>>)

RECURSIVE Seqs(_, _)
Seqs(S, n) ==
    IF n = 0 THEN {<<>>}
    ELSE LET shorter == Seqs(S, n - 1)
         IN  shorter \cup {Append(q, x) : q \in shorter, x \in S}

ApplyPlugins ==
    /\ argument.fn = "decorate_with_plugins"
    /\ returned = NoRet
    /\ returned' = [fn |-> "decorate_with_plugins",
                    value |-> decorate_with_plugins(Registered(argument.value))]
    /\ UNCHANGED <<cfgVars, ctxVars, repVars, argument, extVars>>

InitPlugins ==
    /\ CfgInit
    /\ \E calls \in Seqs(Decorations, MaxPlugins) :
          argument = [fn |-> "decorate_with_plugins", value |-> calls]

(* The lines a backtrace prints, after the backtrace crate's Debug format: *)
(* "<frameno>: 0x<ip> - <name>" for the first symbol of a frame,           *)
(* " - <name>" for a further symbol, "at <file>:<line>" under a symbol.    *)
MaxLines == 4

S_a_f == <<"a", ":", ":", "f">>

S_unknown == <<"<", "u", "n", "k", "n", "o", "w", "n", ">">>

S_b_g == <<"b", ":", ":", "g">>

S_a_rs == <<"a", ".", "r", "s">>

S_c_b_rs == <<"c", ":", "b", ".", "r", "s">>

TraceLine(kind, method, file, line, text) ==
    [kind |-> kind, method |-> method, file |-> file, line |-> line,
     text |-> text]

FrameLine(frameno, method) ==
    TraceLine("method", method, <<>>, 0,
              <<" ", " ">> \o to_string(frameno)
                 \o <<":", " ", "0", "x", "1", "a", " ", "-", " ">> \o method)

SymbolLine(method) ==
    TraceLine("method", method, <<>>, 0, <<" ", " ", " ", "-", " ">> \o method)

LocationLine(file, line) ==
    TraceLine("location", <<>>, file, line,
              <<" ", " ", " ">> \o S_at \o file \o <<":">> \o to_string(line)
                 \o <<" ">>)

OtherLine(text) == TraceLine("other", <<>>, <<>>, 0, text)

TraceLines ==
    {FrameLine(0, S_a_f), FrameLine(10, S_unknown), SymbolLine(S_b_g),
     LocationLine(S_a_rs, 12), LocationLine(S_c_b_rs, U32_MAX),
     OtherLine(S_stack_backtrace), OtherLine(<<" ">>)}

(* Location lines whose number is no u32 (not a number, or one more than   *)
(* the largest) and one without a colon.                                   *)
OddLocationLine(rest, file) ==
    TraceLine("location", <<>>, file, 1, <<" ", " ">> \o S_at \o rest)

OddTraceLines ==
    {FrameLine(0, S_a_f),
     LocationLine(S_c_b_rs, U32_MAX),
     OddLocationLine(S_a_rs \o <<":", "x">>, S_a_rs),
     OddLocationLine(S_a_rs \o <<":">> \o to_string(U32_MAX + 1), S_a_rs),
     OddLocationLine(S_a_rs, S_a_rs),
     OddLocationLine(S_c_b_rs, <<"c">>)}

Texts(trace) == [i \in 1 .. Len(trace) |-> trace[i].text]

ApplyParse ==
    /\ argument.fn = "parse"
    /\ returned = NoRet
    /\ returned' = [fn |-> "parse", value |-> parse(Texts(argument.value))]
    /\ UNCHANGED <<cfgVars, ctxVars, repVars, argument, extVars>>

InitParse ==
    /\ CfgInit
    /\ \E trace \in Seqs(TraceLines, MaxLines)
                         \cup Seqs(OddTraceLines, MaxLines - 2) :
          argument = [fn |-> "parse", value |-> trace]

(* Frames for trim_backtrace: methods under two of the trim_paths, a       *)
(* method of the application, and one that stops short of the "::" that    *)
(* ends a trim path.  Frame i is at line i, so that every frame differs.   *)
MaxFrames == 3

TrimMethods ==
    {trim_paths[9] \o <<"h", "1">>,
     trim_paths[1] \o <<"h", "2">>,
     S_a_f,
     SliceTo(trim_paths[9], Len(trim_paths[9]) - 2)}

Frames(methods) ==
    [i \in 1 .. Len(methods) |-> BacktraceLine(Some(i), Some(S_a_rs), methods[i])]

ApplyTrim ==
    /\ argument.fn = "trim_backtrace"
    /\ returned = NoRet
    /\ returned' = [fn |-> "trim_backtrace",
                    value |-> trim_backtrace(argument.value)]
    /\ UNCHANGED <<cfgVars, ctxVars, repVars, argument, extVars>>

InitTrim ==
    /\ CfgInit
    /\ \E methods \in Seqs(TrimMethods, MaxFrames) :
          argument = [fn |-> "trim_backtrace", value |-> Frames(methods)]

(* Files for decorate: one that cannot be opened, and files of every       *)
(* length up to U32_MAX lines, read to their end or to a failing read.     *)
(* Line i of the file reads "l<i>\n".                                      *)
SourceFile(n) == [i \in 1 .. n |-> <<"l">> \o to_string(i) \o <<"\n">>]

Disks ==
    {[name \in {S_a_rs} |-> None]}
        \cup {[name \in {S_a_rs} |-> Some(OpenFile(SourceFile(n), err))] :
                 n \in 0 .. U32_MAX, err \in BOOLEAN}

(* One frame or two; the first with no location, with a file and any line, *)
(* or with only one of the two.                                            *)
FirstFrames ==
    {BacktraceLine(None, None, S_a_f),
     BacktraceLine(None, Some(S_a_rs), S_a_f),
     BacktraceLine(Some(1), None, S_a_f)}
        \cup {BacktraceLine(Some(l), Some(S_a_rs), S_a_f) : l \in 0 .. U32_MAX}

SecondFrames ==
    {BacktraceLine(None, None, S_b_g), BacktraceLine(Some(1), Some(S_a_rs), S_b_g)}

DecorateFrames ==
    {<<f>> : f \in FirstFrames}
        \cup {<<f, g>> : f \in FirstFrames, g \in SecondFrames}

ApplyDecorate ==
    /\ argument.fn = "decorate"
    /\ returned = NoRet
    /\ returned' = [fn |-> "decorate",
                    value |-> decorate(argument.value.bt_lines,
                                       argument.value.disk)]
    /\ UNCHANGED <<cfgVars, ctxVars, repVars, argument, extVars>>

InitDecorate ==
    /\ CfgInit
    /\ \E bt_lines \in DecorateFrames, disk \in Disks :
          argument = [fn |-> "decorate",
                      value |-> [bt_lines |-> bt_lines, disk |-> disk]]

(* Errors for the causes: given through either trait, with up to          *)
(* MaxChain causes behind them; the links are of two classes and carry a   *)
(* backtrace of one frame or none.                                         *)
MaxChain == 3

Link(class, message, bt) == [class |-> class, message |-> message, backtrace |-> bt]

Links ==
    {Link("IoError", S_boom, None),
     Link("ParseError", S_foo,
          Some(<<FrameLine(0, S_a_f).text, LocationLine(S_a_rs, 1).text>>))}

Chains == Seqs(Links, MaxChain + 1) \ {<<>>}

NoDisk == [name \in {S_a_rs} |-> None]

ApplyCauses ==
    /\ argument.fn = "causes"
    /\ returned = NoRet
    /\ returned' = [fn |-> "causes", value |-> Causes(argument.value, NoDisk)]
    /\ UNCHANGED <<cfgVars, ctxVars, repVars, argument, extVars>>

InitCauses ==
    /\ CfgInit
    /\ \E trait \in {"Fail", "StdError"}, chain \in Chains :
          argument = [fn |-> "causes", value |-> FailOrError(trait, chain)]

ApplySanitize ==
    /\ argument.fn = "sanitize"
    /\ returned = NoRet
    /\ returned' = [fn |-> "sanitize", value |-> sanitize(argument.value, ReadValue)]
    /\ UNCHANGED <<cfgVars, ctxVars, repVars, argument, extVars>>

InitSanitize ==
    /\ \E f \in FilterKeys :
          CfgInitAt([ConfigDefault EXCEPT !.request.filter_keys = f])
    /\ \E req \in SanitizeRequests :
          argument = [fn |-> "sanitize", value |-> req]

(* The functions of the report assembly, each applied to arguments drawn   *)
(* from bounded sets.                                                      *)
InitFn ==
    /\ \/ InitSanitize \/ InitPlugins \/ InitParse
       \/ InitTrim \/ InitDecorate \/ InitCauses
    /\ returned = NoRet
    /\ ExtInit
    /\ environ = EnvTypical
    /\ policy = "prefer_readers"
    /\ CtxInit
    /\ RepInit

NextFn ==
    \/ ApplySanitize
    \/ ApplyPlugins
    \/ ApplyParse
    \/ ApplyTrim
    \/ ApplyDecorate
    \/ ApplyCauses

SpecFn == InitFn /\ [][NextFn]_vars

----------------------------------------------------------------------------
(* What the claims are stated against                                      *)

(* The whole effect of a mutator that runs to its end.                     *)
RECURSIVE Run(_, _, _)
Run(stmts, config, e) ==
    IF stmts = <<>> THEN config
    ELSE Run(Tail(stmts), Assign(stmts[1], config, e), e)

(* The configuration after the given mutators ran one after the other on   *)
(* the initial configuration.                                              *)
RECURSIVE Replay(_, _)
Replay(ms, e) ==
    IF ms = <<>> THEN ConfigDefault
    ELSE Run(Script(ms[Len(ms)]), Replay(SubSeq(ms, 1, Len(ms) - 1), e), e)

(* The configurations published so far, the initial one included.          *)
PublishedConfigs == {Replay(SubSeq(applied, 1, k), environ) : k \in 0 .. Len(applied)}

HeldGuards == {<<t, i>> \in Threads \X (1 .. MaxGuards + 1) : i <= Len(guards[t])}

(* Every field of a Config, by its path.                                   *)
Fields(config) ==
    [f \in {"api_key", "env", "report_data", "root", "revision", "hostname",
            "connection.secure", "connection.host", "connection.port",
            "request.filter_keys"} |->
        CASE f = "api_key" -> config.api_key
          [] f = "env" -> config.env
          [] f = "report_data" -> config.report_data
          [] f = "root" -> config.root
          [] f = "revision" -> config.revision
          [] f = "hostname" -> config.hostname
          [] f = "connection.secure" -> config.connection.secure
          [] f = "connection.host" -> config.connection.host
          [] f = "connection.port" -> config.connection.port
          [] f = "request.filter_keys" -> config.request.filter_keys]

----------------------------------------------------------------------------
(* C1: when a configure call ends by a panic from its closure (the         *)
(* mutator's own panic, or one raised under it), the panic reaches the     *)
(* caller and, right then, the published configuration, what read_config   *)
(* returns and the proxy all equal the configuration as it was when the    *)
(* call took the proxy lock; and the view every configure hands to its     *)
(* mutator is the published configuration.                                 *)
C1_PanicRollsBack ==
    [][\A t \in Threads :
          /\ (pc[t] = "cfg_rollback" /\ pc'[t] = "idle") =>
                /\ last' = "panicked"
                /\ CONFIG'.data = pre[t]
                /\ ReadValue' = pre[t]
                /\ CONFIG_PROXY'.data = pre[t]
          /\ (pc[t] = "cfg_lock" /\ pc'[t] = "cfg_run") =>
                CONFIG_PROXY'.data = CONFIG'.data]_vars

(* A configure has panicked after an earlier one had published: the        *)
(* published value is the earlier one's, and the proxy agrees.             *)
C1_Witness ==
    /\ last = "panicked"
    /\ applied = <<"set_two">>
    /\ nconf = 2
    /\ \A t \in Threads : pc[t] = "idle"
    /\ CONFIG_PROXY.writer = NoThread
    /\ CONFIG_PROXY.data = CONFIG.data
    /\ CONFIG.data.env = Some(S_production)

(* C2: whatever a reader sees through a guard of read_config is one of     *)
(* the configurations published by a completed configure, or the initial   *)
(* one: never a state between two assignments of a mutator.                *)
C2_ReadersSeePublished ==
    \A h \in HeldGuards :
        /\ ReadValue \in PublishedConfigs
        /\ guards[h[1]][h[2]].seen \in PublishedConfigs

(* A guard is held while a panicking mutator has left the proxy half       *)
(* updated.                                                                *)
C2_Witness ==
    \E t, u \in Threads :
        /\ t # u
        /\ guards[t] # <<>>
        /\ script[u] = "panics"
        /\ pc[u] \in {"cfg_unwind", "cfg_rollback"}
        /\ CONFIG_PROXY.data # CONFIG.data

C4_ReadDuringMutator ==
    \A u \in Threads :
        pc[u] = "cfg_run" =>
            /\ ReadLockFree
            /\ ~CONFIG.poisoned
            /\ ReadValue = Replay(applied, environ)
            /\ ReadValue = pre[u]
            /\ \A i \in 1 .. Len(guards[u]) :
                  guards[u][i].scope = "closure" => guards[u][i].seen = pre[u]

(* The mutator has changed its view and then taken a guard, under a lock   *)
(* that prefers writers, while another thread is inside read_config.       *)
C4_Witness ==
    \E t, u \in Threads :
        /\ pc[u] = "cfg_run"
        /\ policy = "prefer_writers"
        /\ \E i \in 1 .. Len(guards[u]) : guards[u][i].scope = "closure"
        /\ CONFIG_PROXY.data # ReadValue
        /\ pc[t] = "read_lock"

(* C5: the published configuration is the result of running the published *)
(* mutators one after the other, in publication order, on the initial      *)
(* configuration; what is about to be published is the running mutator     *)
(* applied to the published configuration; every guard was handed the      *)
(* result of a prefix of that order.                                       *)
C5_TotalOrder ==
    /\ CONFIG.data = Replay(applied, environ)
    /\ \A t \in Threads :
          pc[t] \in {"cfg_publish", "cfg_store"} =>
              CONFIG_PROXY.data = Run(Script(script[t]), CONFIG.data, environ)
    /\ \A h \in HeldGuards : guards[h[1]][h[2]].seen \in PublishedConfigs

(* Two configure calls, started concurrently, have both published.         *)
C5_Witness ==
    /\ Len(applied) = 2
    /\ applied[1] = "set_others"
    /\ applied[2] = "set_two"
    /\ CONFIG.data.api_key = Some(S_abcd1234)
    /\ CONFIG.data.report_data = Some(FALSE)

(* C7: the publish step holds the write lock only while no guard of        *)
(* read_config is alive, so the configuration behind a guard is the one    *)
(* the guard was handed for as long as the guard lives; and a configure    *)
(* call returns only from a publish step, taken with no guard alive.       *)
C7_GuardsBlockPublish ==
    /\ [](/\ \A t \in Threads : pc[t] = "cfg_store" => Readers = 0
          /\ \A h \in HeldGuards : guards[h[1]][h[2]].seen = ReadValue)
    /\ [][\A t \in Threads :
             (pc[t] \notin {"idle", "read_lock"} /\ pc'[t] = "idle"
                 /\ last' = "returned")
             => (Readers = 0 /\ pc[t] = "cfg_store")]_vars

(* A configure is waiting to publish a changed configuration while         *)
(* another thread holds a guard.                                           *)
C7_Witness ==
    \E t, u \in Threads :
        /\ t # u
        /\ pc[u] = "cfg_publish"
        /\ guards[t] # <<>>
        /\ CONFIG_PROXY.data # CONFIG.data

(* C8: a mutator that calls configure never gets past that call: the       *)
(* thread is stuck in it or unwinds from it, nothing is published by or    *)
(* after it, and the published configuration stays as it was when the      *)
(* outer call began.                                                       *)
C8_NestedConfigure ==
    /\ \A t \in Threads :
          script[t] = "nested" =>
              /\ pc[t] \in {"cfg_run", "cfg_unwind", "cfg_rollback",
                            "cfg_deadlock"}
              /\ ip[t] <= 2
              /\ CONFIG.data = pre[t]
    /\ \A k \in 1 .. Len(applied) : applied[k] # "nested"

(* The nested call has panicked and the outer configure is rolling back,   *)
(* the proxy still holding the outer mutator's change.                     *)
C8_Witness ==
    \E t \in Threads :
        /\ script[t] = "nested"
        /\ pc[t] = "cfg_rollback"
        /\ CONFIG_PROXY.data.env = Some(S_staging)
        /\ CONFIG.data.env # Some(S_staging)

KeepsSetFields(old, new) ==
    \A f \in DOMAIN Fields(old) :
        is_some(Fields(old)[f]) => Fields(new)[f] = Fields(old)[f]

(* C9: the publication of configure_from_env leaves every field that held  *)
(* a value with that value, under every environment.                       *)
C9_FromEnvKeepsSetFields ==
    [][\A t \in Threads :
          (pc[t] = "cfg_store" /\ script[t] = "from_env") =>
              KeepsSetFields(CONFIG.data, CONFIG'.data)]_vars

(* configure_from_env has run after api_key and env were set: it kept      *)
(* them, although the environment names other values, and filled the port. *)
C9_Witness ==
    /\ applied = <<"set_two", "from_env">>
    /\ environ = EnvTypical
    /\ CONFIG.data.api_key = Some(S_abcd1234)
    /\ CONFIG.data.env = Some(S_production)
    /\ CONFIG.data.connection.port = Some(80)
    /\ CONFIG.data.request.filter_keys = Some(<<<<"a">>, <<"b">>>>)
    /\ CONFIG.data.report_data = Some(TRUE)
    /\ CONFIG.data.connection.secure = Some(FALSE)

C10_AsStated ==
    /\ [](\A t \in Threads : frames[t] # <<>> => get(t) = Some(Last(bound[t])))
    /\ [][\A t \in Threads :
             (cevent' = Event("with_return", t, None))
                 => get(t)' = Last(before[t])]_vars

(* C10, amended: inside with(v, body) get() returns v at every depth;      *)
(* right after with returns get() returns the binding of the enclosing     *)
(* with when there is one, and the default binding as it then stands       *)
(* otherwise; that is what get() returned right before the call, unless    *)
(* no with encloses the call and its body has called set or unset.         *)
C10_WithScopes ==
    /\ [](\A t \in Threads : frames[t] # <<>> => get(t) = Some(Last(bound[t])))
    /\ [][\A t \in Threads :
             (cevent' = Event("with_return", t, None)) =>
                 /\ get(t)' = IF frames'[t] # <<>> THEN Some(Last(bound'[t]))
                                                   ELSE dflt'[t]
                 /\ (frames'[t] # <<>> \/ ~Last(touched[t]))
                       => get(t)' = Last(before[t])]_vars

(* An inner with has just returned inside an outer one, with a default     *)
(* binding set: get() is back to the outer binding.                        *)
C10_Witness ==
    \E t \in Threads :
        /\ cevent = Event("with_return", t, None)
        /\ bound[t] = <<"request_a">>
        /\ dflt[t] = Some("request_b")
        /\ get(t) = Some("request_a")

(* C11, as stated: after the body of with has unwound and the unwind has   *)
(* left with, get() returns what it returned before with was entered.      *)
C11_AsStated ==
    [][\A t \in Threads :
          (cevent' = Event("with_unwind", t, None))
              => get(t)' = Last(before[t])]_vars

(* C11, amended: when the body of with unwinds the scoped binding is       *)
(* removed all the same: get() then returns the binding of the enclosing   *)
(* with when there is one and the default binding as it then stands        *)
(* otherwise; that is what get() returned before with was entered, unless  *)
(* no with encloses the call and its body has called set or unset before   *)
(* it panicked.                                                            *)
C11_WithUnwinds ==
    [][\A t \in Threads :
          (cevent' = Event("with_unwind", t, None)) =>
              /\ scoped'[t] = IF bound'[t] # <<>> THEN Some(Last(bound'[t]))
                                                 ELSE None
              /\ get(t)' = IF bound'[t] # <<>> THEN Some(Last(bound'[t]))
                                               ELSE dflt'[t]
              /\ (bound'[t] # <<>> \/ ~Last(touched[t]))
                    => get(t)' = Last(before[t])]_vars

(* The body of an inner with has just unwound into an outer one, after it  *)
(* had set the default binding: get() returns the outer binding again.     *)
C11_Witness ==
    \E t \in Threads :
        /\ cevent = Event("with_unwind", t, None)
        /\ bound[t] = <<"request_b">>
        /\ touched[t] = <<TRUE>>
        /\ recent[t] = [op |-> "set", value |-> Some("request_a")]
        /\ get(t) = Some("request_b")

(* What the history of the thread's calls says get() returns.              *)
Expected(t) ==
    IF bound[t] # <<>> THEN Some(Last(bound[t]))
    ELSE IF recent[t].op = "set" THEN recent[t].value
    ELSE None

(* C12: get() returns the value of the innermost active with if there is   *)
(* one, otherwise the value of the most recent set unless an unset came    *)
(* after it, otherwise nothing; and a call of get() returns just that.     *)
C12_GetContract ==
    /\ \A t \in Threads : get(t) = Expected(t)
    /\ cevent.op = "get" => cevent.ret = Expected(cevent.thread)

(* get() was called after set, then a with that returned, then unset and   *)
(* set again, inside a with: it returned the value of the with; the        *)
(* default binding holds another value.                                    *)
C12_Witness ==
    \E t \in Threads :
        /\ cevent = Event("get", t, Some("request_a"))
        /\ bound[t] = <<"request_b", "request_a">>
        /\ recent[t] = [op |-> "set", value |-> Some("request_b")]


----------------------------------------------------------------------------
(* The report pipeline: the gate, the key, the transport call             *)

(* The flag as the documentation of Config::report_data gives it.          *)
EffectiveFlag(config) ==
    CASE config.report_data = Some(TRUE) -> TRUE
      [] config.report_data = Some(FALSE) -> FALSE
      [] OTHER -> config.env \notin {Some(S_test), Some(S_development),
                                     Some(S_cucumber)}

InReport(t) == pc[t] \in {"rep_read", "rep_server", "rep_sanitize", "rep_send"}

PastGate(t) == pc[t] \in {"rep_server", "rep_sanitize", "rep_send"}

(* C13: whenever the effective report flag is false (the explicit          *)
(* report_data if set, else false exactly for the environment names test,  *)
(* development and cucumber), a report attempt that reads the              *)
(* configuration ends there with the suppressed outcome, having made no    *)
(* request, and never reaches the transport call; when the flag is true    *)
(* the attempt is not suppressed.                                          *)
C13_Gate ==
    [][\A t \in Threads :
          pc[t] = "rep_read" /\ pc'[t] # "rep_read"
          => IF EffectiveFlag(ReadValue)
             THEN pc'[t] = "rep_server" \/ outcome' = Err("NoApiKey")
             ELSE /\ outcome' = Err("NoReportData")
                  /\ pc'[t] = resume[t]
                  /\ requests'[t].sent = 0
                  /\ requests' = requests]_vars

(* report_data = false, setup, a panic: the hook's attempt has ended       *)
(* suppressed, without a request, and the thread unwinds.                  *)
C13_Witness ==
    \E t \in Threads :
        /\ hooked
        /\ ReadValue.report_data = Some(FALSE)
        /\ ReadValue.env = Some(S_production)
        /\ pc[t] = "exiting"
        /\ outcome = Err("NoReportData")
        /\ requests[t].sent = 0


(* C14: each triggering error (a call of notify or notify_std_error, a     *)
(* firing of the panic hook) hands at most one request to the network:     *)
(* the count of an attempt goes from none to one at the transport call,    *)
(* and that step ends the attempt whatever the transport call gave.        *)
C14_AtMostOnePost ==
    [][\A t \in Threads :
          requests'[t].sent # requests[t].sent
          => \/ pc[t] \in {"idle", "cfg_run"} /\ pc'[t] = "rep_read"
                /\ requests'[t].sent = 0
             \/ /\ pc[t] = "rep_send"
                /\ requests[t].sent = 0
                /\ requests'[t].sent = 1
                /\ pc'[t] = resume[t]
                /\ attempt'[t] = NoAttempt]_vars

(* A 429 has been answered to the one request of an attempt, and the       *)
(* attempt is over.                                                        *)
C14_Witness ==
    \E t \in Threads :
        /\ network = Response([status |-> 429, body |-> NoJsonBody])
        /\ outcome = Err("TooManyRequests")
        /\ requests[t].sent = 1
        /\ pc[t] = "idle"


(* setup() has been called and the published configuration has an API      *)
(* key, the collector as endpoint and reporting not gated off.             *)
ReportsToCollector ==
    /\ hooked
    /\ is_some(ReadValue.api_key)
    /\ Url(ReadValue) = CollectorUrl
    /\ EffectiveFlag(ReadValue)

OutcomeOf(resp) ==
    IF resp.status = 429 \/ resp.status = 503 THEN Err("TooManyRequests")
    ELSE IF resp.status = 402 THEN Err("PaymentRequired")
    ELSE IF resp.status = 403 THEN Err("Forbidden")
    ELSE IF resp.status # 201 THEN Err("UnknownResponse")
    ELSE IF resp.body.json /\ resp.body.id # None /\ resp.body.id[1].uuid
         THEN [err |-> "none", id |-> <<resp.body.id[1].value>>]
         ELSE Err("ResponseDecodeFailed")

(* C16: when the transport call of an attempt returns a response, the      *)
(* attempt ends with the outcome that response determines: 429 and 503     *)
(* TooManyRequests, 402 PaymentRequired, 403 Forbidden, 201 with a UUID id *)
(* success with that id, 201 with any other body ResponseDecodeFailed,     *)
(* every other status UnknownResponse.                                     *)
C16_OutcomeOfResponse ==
    [][\A t \in Threads :
          LET net == Transport(Url(ReadValue), attempt[t].token)
          IN  pc[t] = "rep_send" /\ pc'[t] # "rep_send"
                  /\ net.kind = "response"
              => outcome' = OutcomeOf(net.resp)]_vars

(* A 201 whose body carries a UUID has been answered: success, that id.    *)
C16_Witness ==
    \E t \in Threads :
        /\ network = Response([status |-> 201,
                               body |-> JsonBody(Some(IdText(ForeignUuid)))])
        /\ Url(ReadValue) # CollectorUrl
        /\ requests[t].sent = 1
        /\ outcome = Ok(ForeignUuid)


(* C17: with no api_key in the configuration, an attempt that reads the    *)
(* configuration ends there without a request: with NoApiKey when the      *)
(* effective report flag is true, and with the suppressed outcome when it  *)
(* is false (the gate comes before the key).                               *)
C17_GateBeforeKey ==
    [][\A t \in Threads :
          pc[t] = "rep_read" /\ pc'[t] # "rep_read"
              /\ ReadValue.api_key = None
          => /\ outcome' = IF EffectiveFlag(ReadValue) THEN Err("NoApiKey")
                                                       ELSE Err("NoReportData")
             /\ pc'[t] = resume[t]
             /\ requests'[t].sent = 0
             /\ requests' = requests]_vars

(* No key, no explicit flag, the environment name "Test": an attempt has   *)
(* ended with NoApiKey and without a request.                              *)
C17_Witness ==
    \E t \in Threads :
        /\ ReadValue.api_key = None
        /\ ReadValue.report_data = None
        /\ ReadValue.env = Some(S_Test)
        /\ outcome = Err("NoApiKey")
        /\ requests[t].sent = 0
        /\ pc[t] = "idle"


(* The outcomes of the taxonomy: success and the HoneybadgerError          *)
(* variants.                                                               *)
Taxonomy ==
    {"none", "NoReportData", "NoApiKey", "CouldNotAssemblePayload",
     "HttpRequestFailed", "TooManyRequests", "PaymentRequired", "Forbidden",
     "UnknownResponse", "ResponseDecodeFailed"}

(* C18: every step of a report attempt leaves the configuration store and  *)
(* the thread's context bindings as they are, and the attempt of a notify  *)
(* or notify_std_error call ends with an outcome of the taxonomy by        *)
(* returning to its caller, with no guard of the attempt left: nothing is  *)
(* raised into the host.                                                   *)
C18_NotifyReturns ==
    [][\A t \in Threads :
          InReport(t) /\ <<pc[t], attempt[t]>>' # <<pc[t], attempt[t]>>
          => /\ UNCHANGED <<CONFIG, CONFIG_PROXY, scoped, frames, dflt>>
             /\ ~InReport(t)'
                => /\ pc'[t] = resume[t]
                   /\ outcome'.err \in Taxonomy
                   /\ (outcome'.err = "none") = (outcome'.id # None)
                   /\ \A i \in 1 .. Len(guards'[t]) :
                         guards'[t][i].scope # "report"]_vars

(* notify has returned to its caller after the payload failed to           *)
(* serialize; the hook is not installed, so the attempt was a call of      *)
(* notify or notify_std_error.                                             *)
C18_Witness ==
    /\ ~hooked
    /\ network = NoResponse("json_error")
    /\ outcome = Err("CouldNotAssemblePayload")
    /\ \A t \in Threads : pc[t] = "idle" /\ requests[t].sent = 0


----------------------------------------------------------------------------
(* Reports next to configure calls                                         *)

(* C19: every report attempt eventually returns, also while other threads *)
(* call configure: no thread stays inside an attempt for ever.             *)
C19_ReportsReturn == \A t \in Threads : []<>(~InReport(t))


(* A thread inside notify_internal holds its guard and asks for another    *)
(* one (ServerInfo::generate, RequestInfo::sanitize) while another         *)
(* thread's replace_config waits for the write lock, on a lock that        *)
(* prefers writers: each waits for the other, and no step is possible.     *)
C19_Witness ==
    \E t, u \in Threads :
        /\ policy = "prefer_writers"
        /\ pc[t] \in {"rep_server", "rep_sanitize"}
        /\ \E i \in 1 .. Len(guards[t]) : guards[t][i].scope = "report"
        /\ pc[u] = "cfg_publish"
        /\ ~ReadLockFree
        /\ ~WriteLockFree
        /\ ~ENABLED NextHook


(* The hook's attempt for a panic raised inside a configure call.          *)
HookInConfigure(t) == InReport(t) /\ resume[t] = "cfg_unwind"

(* C20: while the hook reports a panic raised by a configure mutator, the  *)
(* panicking thread still holds the proxy write lock, its read_config      *)
(* calls do not block (the read lock of CONFIG is available) and do not    *)
(* panic (the lock is not poisoned), and what the attempt reads and puts   *)
(* into the payload is the configuration published before the configure    *)
(* call, not the proxy the mutator has changed.                            *)
C20_HookReadsPublished ==
    /\ outcome.err # "panic"
    /\ \A t \in Threads :
          HookInConfigure(t)
          => /\ CONFIG_PROXY.writer = t
             /\ ReadLockFree
             /\ ~CONFIG.poisoned
             /\ ReadValue = pre[t]
             /\ PastGate(t) => attempt[t].api_key = pre[t].api_key
             /\ pc[t] \in {"rep_sanitize", "rep_send"}
                => attempt[t].environment_name = pre[t].env

(* The mutator set env to "foo" on the proxy and panicked; the hook's      *)
(* attempt is about to send a payload that carries the published env.      *)
C20_Witness ==
    \E t \in Threads :
        /\ HookInConfigure(t)
        /\ script[t] = "panics"
        /\ pc[t] = "rep_send"
        /\ CONFIG_PROXY.writer = t
        /\ CONFIG_PROXY.data.env = Some(S_foo)
        /\ attempt[t].environment_name # Some(S_foo)
        /\ attempt[t].error = PanicPayload("str", S_panic_test)


----------------------------------------------------------------------------
(* The report assembly: sanitize, plugins, backtrace, causes               *)

(* The filter substrings: the configured filter_keys, or "password" and    *)
(* "HTTP_AUTHORIZATION" when none are configured.                          *)
FilterSubstrings(config) ==
    IF config.request.filter_keys = None
    THEN {S_password, S_HTTP_AUTHORIZATION}
    ELSE {config.request.filter_keys[1][i] :
             i \in 1 .. Len(config.request.filter_keys[1])}

IsSubstring(s, key) ==
    \E i \in 1 .. Len(key) + 1 : \E j \in i - 1 .. Len(key) :
        SubSeq(key, i, j) = s

Redacted(config, key) == \E s \in FilterSubstrings(config) : IsSubstring(s, key)

Marker(n) == IF n = "context" THEN JsonString(S_FILTERED) ELSE S_FILTERED

SanitizedMaps == {"cgi_data", "params", "session", "context"}

(* C21 as stated: after sanitization each of the four maps has the keys it *)
(* had, and a value is the marker if and only if its key contains a        *)
(* filter substring; every other value is unchanged.                       *)
C21_AsStated ==
    returned.fn = "sanitize"
    => \A n \in SanitizedMaps :
          /\ DOMAIN returned.value[n] = DOMAIN argument.value[n]
          /\ \A k \in DOMAIN argument.value[n] :
                /\ (returned.value[n][k] = Marker(n)) <=> Redacted(ReadValue, k)
                /\ ~Redacted(ReadValue, k)
                   => returned.value[n][k] = argument.value[n][k]

(* C21: after sanitization each of the four maps has the keys it had;      *)
(* the value under a key that contains a filter substring is the marker,   *)
(* and every other value is what it was (the marker only if it was the     *)
(* marker before).                                                         *)
C21_Sanitized ==
    returned.fn = "sanitize"
    => \A n \in SanitizedMaps :
          /\ DOMAIN returned.value[n] = DOMAIN argument.value[n]
          /\ \A k \in DOMAIN argument.value[n] :
                returned.value[n][k] =
                    IF Redacted(ReadValue, k) THEN Marker(n)
                                              ELSE argument.value[n][k]

(* No filter_keys configured: params["my_password"] has been redacted and  *)
(* cgi_data["pass"] has been left alone.                                   *)
C21_Witness ==
    /\ returned.fn = "sanitize"
    /\ ReadValue.request.filter_keys = None
    /\ DOMAIN argument.value["params"] = {S_my_password}
    /\ argument.value["params"][S_my_password] = S_v
    /\ returned.value["params"][S_my_password] = S_FILTERED
    /\ DOMAIN returned.value["cgi_data"] = {S_pass}
    /\ returned.value["cgi_data"][S_pass] = S_v


(* The position of the first plugin that claims the payload or fails, or   *)
(* the number of plugins when all decline.                                 *)
LastTried(calls) ==
    IF \E i \in 1 .. Len(calls) : calls[i] # "declines"
    THEN CHOOSE i \in 1 .. Len(calls) :
            /\ calls[i] # "declines"
            /\ \A j \in 1 .. i - 1 : calls[j] = "declines"
    ELSE Len(calls)

(* C22: the decorators are tried in the order of their add_plugin calls;   *)
(* the one tried after a decorator that declines is the next one           *)
(* registered, and no decorator is tried after one that claims the         *)
(* payload.                                                                *)
C22_RegistrationOrder ==
    returned.fn = "decorate_with_plugins"
    => LET invoked == returned.value.invoked
           calls == argument.value
       IN  /\ \A k \in 1 .. Len(invoked) : invoked[k] = k
           /\ Len(invoked) <= Len(calls)
           /\ \A k \in 1 .. Len(invoked) :
                 /\ calls[k] = "claims" => k = Len(invoked)
                 /\ calls[k] = "declines" /\ k < Len(calls)
                    => k + 1 <= Len(invoked)
           /\ (\A k \in 1 .. Len(calls) : calls[k] # "fails")
              => returned.value.result = "Ok" /\ Len(invoked) = LastTried(calls)

(* Three plugins: the first declines, the second claims, the third is not  *)
(* tried.                                                                  *)
C22_Witness ==
    /\ returned.fn = "decorate_with_plugins"
    /\ argument.value = <<"declines", "claims", "declines">>
    /\ returned.value = [result |-> "Ok", invoked |-> <<1, 2>>]

(* C23: a plugin that returns an error is skipped: the decorators          *)
(* registered after it are tried as if it had declined, and the failure    *)
(* is reported as a plugin error.                                          *)
C23_FailureIsSkipped ==
    returned.fn = "decorate_with_plugins"
    => LET invoked == returned.value.invoked
           calls == argument.value
       IN  /\ \A k \in 1 .. Len(invoked) :
                 calls[k] = "fails" /\ k < Len(calls) => k + 1 <= Len(invoked)
           /\ (\E k \in 1 .. Len(invoked) : calls[k] = "fails")
              => returned.value.result = "Err"

(* The first plugin fails and the second, which would claim the payload,   *)
(* is never tried.                                                         *)
C23_Witness ==
    /\ returned.fn = "decorate_with_plugins"
    /\ argument.value = <<"fails", "claims">>
    /\ returned.value = [result |-> "Err", invoked |-> <<1>>]


(* C24: once install_hook has completed, however many calls of             *)
(* install_hook or setup were made and however they interleaved, the hook  *)
(* in place is the hook that was installed before, followed by             *)
(* honeybadger_panic_hook, with honeybadger_panic_hook in it once; a       *)
(* panic then begins one report attempt on the panicking thread, which     *)
(* hands the network at most one request.                                  *)
HookCount(hook) ==
    Cardinality({i \in 1 .. Len(hook) : hook[i] = HoneybadgerHook})

InstalledOnce ==
    INSTALL_ONCE.state = "done" =>
        /\ HookCount(INSTALL_ONCE.old_hook) = 0
        /\ Len(INSTALL_ONCE.old_hook) = 1
        /\ HOOK = Append(INSTALL_ONCE.old_hook, HoneybadgerHook)

OnePanicOneAttempt ==
    \A t \in Threads :
        /\ INSTALL_ONCE.state = "done"
        /\ pc[t] = "idle"
        /\ pc'[t] \in {"rep_read", "exiting"}
        => /\ pc'[t] = "rep_read"
           /\ resume'[t] = "exiting"
           /\ attempt'[t] # NoAttempt
           /\ requests'[t].sent = 0

C24_InstalledOnce ==
    /\ [](InstalledOnce /\ \A t \in Threads : requests[t].sent <= 1)
    /\ [][OnePanicOneAttempt]_vars

(* Witness: the hook of the host was taken and chained by the first call,  *)
(* a later call has arrived at the completed Once, and a thread that       *)
(* panicked has made its one request and unwound.                          *)
C24_Witness ==
    /\ INSTALL_ONCE = Once("done", <<UserHook>>)
    /\ HOOK = <<UserHook, HoneybadgerHook>>
    /\ \E t, u \in Threads :
          /\ pc[t] = "inst_once"
          /\ pc[u] = "exited"
          /\ requests[u].sent = 1


(* C25: for a trace of N method lines, each followed by one location       *)
(* line, parse returns N entries in the order of the method lines, entry   *)
(* i with method i and the file and line number of the location line       *)
(* after method i.                                                         *)
IsPairs(trace) ==
    /\ Len(trace) % 2 = 0
    /\ \A i \in 1 .. Len(trace) :
          trace[i].kind = IF i % 2 = 1 THEN "method" ELSE "location"

C25_PairsParsed ==
    returned.fn = "parse" /\ IsPairs(argument.value) =>
        returned.value =
            [i \in 1 .. Len(argument.value) \div 2 |->
                BacktraceLine(Some(argument.value[2 * i].line),
                              Some(argument.value[2 * i].file),
                              argument.value[2 * i - 1].method)]

(* Witness: two frames with their locations, the second file with a colon  *)
(* in its name and the largest line number.                                *)
C25_Witness ==
    /\ returned.fn = "parse"
    /\ argument.value =
          <<FrameLine(0, S_a_f), LocationLine(S_a_rs, 12),
            SymbolLine(S_b_g), LocationLine(S_c_b_rs, U32_MAX)>>
    /\ returned.value =
          <<BacktraceLine(Some(12), Some(S_a_rs), S_a_f),
            BacktraceLine(Some(U32_MAX), Some(S_c_b_rs), S_b_g)>>

(* C26: parse returns one entry per method line, in order; the entry of a  *)
(* method line with no location line between it and the next method line   *)
(* or the end of the input has file = None and line = None.                *)
MethodIndexes(trace) == {i \in 1 .. Len(trace) : trace[i].kind = "method"}

EntryOf(trace, i) == Cardinality({j \in MethodIndexes(trace) : j <= i})

HasLocation(trace, i) ==
    \E k \in i + 1 .. Len(trace) :
        /\ trace[k].kind = "location"
        /\ \A j \in i + 1 .. k : trace[j].kind # "method"

C26_NoLocationIsNone ==
    returned.fn = "parse" =>
        /\ Len(returned.value) = Cardinality(MethodIndexes(argument.value))
        /\ \A i \in MethodIndexes(argument.value) :
              LET entry == returned.value[EntryOf(argument.value, i)]
              IN  /\ entry.method = argument.value[i].method
                  /\ ~HasLocation(argument.value, i) =>
                        entry.file = None /\ entry.line = None

(* Witness: a location line, then two method lines, the second one with a  *)
(* location: the first method has locations on both sides and takes none.  *)
C26_Witness ==
    /\ returned.fn = "parse"
    /\ argument.value =
          <<LocationLine(S_a_rs, 12), FrameLine(0, S_a_f),
            FrameLine(10, S_unknown), LocationLine(S_c_b_rs, U32_MAX)>>
    /\ returned.value =
          <<BacktraceLine(None, None, S_a_f),
            BacktraceLine(Some(U32_MAX), Some(S_c_b_rs), S_unknown)>>


(* C27: with k the largest index of a frame whose method starts with one   *)
(* of the trim paths, trim_backtrace leaves the frames after k, in order;  *)
(* with no such frame it leaves the frames as they were; no frame it       *)
(* leaves starts with one of the trim paths.                               *)
Denylisted(method) ==
    \E p \in Elements(trim_paths) :
        \A i \in 1 .. Len(p) : i <= Len(method) /\ method[i] = p[i]

MatchAt(bt_lines, k) ==
    /\ Denylisted(bt_lines[k].method)
    /\ \A j \in k + 1 .. Len(bt_lines) : ~Denylisted(bt_lines[j].method)

C27_TrimmedBelowLastMatch ==
    returned.fn = "trim_backtrace" =>
        /\ \A k \in 1 .. Len(argument.value) :
              MatchAt(argument.value, k) =>
                  returned.value =
                      SubSeq(argument.value, k + 1, Len(argument.value))
        /\ (\A k \in 1 .. Len(argument.value) :
               ~Denylisted(argument.value[k].method)) =>
              returned.value = argument.value
        /\ \A i \in 1 .. Len(returned.value) :
              ~Denylisted(returned.value[i].method)

(* Witness: two frames under trim paths, then a frame of the application:  *)
(* that frame alone is left.                                               *)
C27_Witness ==
    /\ returned.fn = "trim_backtrace"
    /\ Len(argument.value) = 3
    /\ Denylisted(argument.value[1].method)
    /\ Denylisted(argument.value[2].method)
    /\ ~Denylisted(argument.value[3].method)
    /\ returned.value = <<argument.value[3]>>


(* C28: for a frame with a file that can be read and a line L, the keys    *)
(* of the source map are the line numbers from max(1, L - 2) to L + 2      *)
(* that the file has, each with the text of that line; so for L = 0,       *)
(* L = 1 and L at the largest line number.                                 *)
Max(a, b) == IF a >= b THEN a ELSE b

WindowAround(L, lines) ==
    {k \in Max(1, L - 2) .. L + 2 : k <= Len(lines)}

SourceIsWindow(entry, L, lines) ==
    /\ entry.source # None
    /\ DOMAIN entry.source[1] = WindowAround(L, lines)
    /\ \A k \in DOMAIN entry.source[1] : entry.source[1][k] = lines[k]

C28_WindowAroundLine ==
    returned.fn = "decorate" =>
        \A i \in 1 .. Len(argument.value.bt_lines) :
            LET bt_line == argument.value.bt_lines[i]
            IN  (/\ bt_line.line # None
                 /\ bt_line.file # None
                 /\ argument.value.disk[bt_line.file[1]] # None)
                => SourceIsWindow(returned.value[i], bt_line.line[1],
                                  argument.value.disk[bt_line.file[1]][1].lines)

(* The same window for the lines from 1 on, which the code does give.      *)
WindowFromLineOne ==
    returned.fn = "decorate" =>
        \A i \in 1 .. Len(argument.value.bt_lines) :
            LET bt_line == argument.value.bt_lines[i]
            IN  (/\ bt_line.line # None
                 /\ bt_line.line # Some(0)
                 /\ bt_line.file # None
                 /\ argument.value.disk[bt_line.file[1]] # None)
                => SourceIsWindow(returned.value[i], bt_line.line[1],
                                  argument.value.disk[bt_line.file[1]][1].lines)

(* Witness: a frame at line 0 of a file of three lines or more: the        *)
(* source map has the keys 1, 2 and 3.                                     *)
C28_Witness ==
    /\ returned.fn = "decorate"
    /\ argument.value.bt_lines[1].line = Some(0)
    /\ returned.value[1].source # None
    /\ DOMAIN returned.value[1].source[1] = {1, 2, 3}


(* C29: the causes of a report are the errors of the caused-by chain       *)
(* after the reported error, one entry each and in the order of the       *)
(* chain, the direct cause first; the reported error is not among them; a  *)
(* chain of n causes gives n entries, an error with no cause none.         *)
C29_OneCausePerLink ==
    returned.fn = "causes" =>
        /\ Len(returned.value) = Len(argument.value.chain) - 1
        /\ \A i \in 1 .. Len(returned.value) :
              /\ returned.value[i].class = argument.value.chain[i + 1].class
              /\ returned.value[i].message = argument.value.chain[i + 1].message

(* Witness: an error with two causes of different classes behind it.       *)
C29_Witness ==
    /\ returned.fn = "causes"
    /\ Len(argument.value.chain) = 3
    /\ argument.value.chain[1].class = "IoError"
    /\ argument.value.chain[2].class = "ParseError"
    /\ argument.value.chain[3].class = "IoError"
    /\ Len(returned.value) = 2
    /\ returned.value[1].class = "ParseError"
    /\ returned.value[2].class = "IoError"


(* C30: whenever no thread holds the write lock of CONFIG_PROXY, the       *)
(* proxy equals the published configuration: at the start, after a         *)
(* configure that returned and after a configure whose mutator panicked.   *)
C30_ProxyIsPublished ==
    ProxyLockFree => CONFIG_PROXY.data = CONFIG.data

(* Witness: one configure has published, a later one has ended by a panic, *)
(* and no thread holds the proxy lock.                                     *)
C30_Witness ==
    /\ last = "panicked"
    /\ Len(applied) = 1
    /\ nconf > 1
    /\ ProxyLockFree
    /\ CONFIG.data # ConfigDefault
    /\ CONFIG_PROXY.data = CONFIG.data


----------------------------------------------------------------------------
(* One configuration per attempt                                           *)

(* C31: from the gate of a report attempt to its end the published         *)
(* configuration stays the one the gate read, whatever configure calls     *)
(* other threads make meanwhile: the key of the attempt, the environment   *)
(* name of its server info, and the configuration that sanitize and report *)
(* read for the filter keys and the endpoint are all of that one           *)
(* configuration.                                                          *)
C31_OneConfigPerAttempt ==
    \A t \in Threads :
        PastGate(t) =>
            /\ attempt[t].api_key = ReadValue.api_key
            /\ pc[t] \in {"rep_sanitize", "rep_send"}
               => attempt[t].environment_name = ReadValue.env
            /\ \A i \in 1 .. Len(guards[t]) :
                  guards[t][i].scope = "report" => guards[t][i].seen = ReadValue

(* Witness: an attempt is about to send while another thread's configure,  *)
(* with a changed proxy, waits to publish.                                 *)
C31_Witness ==
    \E t, u \in Threads :
        /\ t # u
        /\ pc[t] = "rep_send"
        /\ resume[t] = "idle"
        /\ pc[u] = "cfg_publish"
        /\ CONFIG_PROXY.data.api_key # CONFIG.data.api_key
        /\ attempt[t].api_key = CONFIG.data.api_key


----------------------------------------------------------------------------
(* The two bindings of a thread, the threads, and the tasks of a thread    *)

(* C32: entering and leaving with leaves the default binding as it is; a   *)
(* set or unset in the body of with(v, body) leaves get() at v; and when   *)
(* the outermost with has returned get() returns what the most recent set  *)
(* or unset, in the body or before it, left in the default binding.        *)
C32_IndependentSlots ==
    [][\A t \in Threads :
          /\ (cevent'.thread = t
                /\ cevent'.op \in {"with", "with_return", "with_unwind"})
                => dflt'[t] = dflt[t]
          /\ (cevent'.thread = t /\ cevent'.op \in {"set", "unset"}
                /\ frames[t] # <<>>)
                => /\ get(t) = Some(Last(bound[t]))
                   /\ get(t)' = Some(Last(bound[t]))
          /\ (cevent' = Event("with_return", t, None) /\ frames'[t] = <<>>)
                => get(t)' = IF recent[t].op = "set" THEN recent[t].value
                                                     ELSE None]_vars

(* Witness: set was just called in the body of a with: the default binding *)
(* holds the new value and get() still returns the value of the with.      *)
C32_Witness ==
    \E t \in Threads :
        /\ cevent = Event("set", t, None)
        /\ bound[t] = <<"request_a">>
        /\ touched[t] = <<TRUE>>
        /\ dflt[t] = Some("request_b")
        /\ scoped[t] = Some("request_a")
        /\ get(t) = Some("request_a")


(* C33: a with, set or unset on one thread leaves both bindings of every   *)
(* other thread, and what get() returns there, as they were; and a call    *)
(* of get() on a thread (the call a report makes for its request info)     *)
(* returns what that thread's own with, set and unset calls have bound.    *)
C33_PerThread ==
    /\ [](cevent.op = "get" => cevent.ret = Expected(cevent.thread))
    /\ [][\A t, u \in Threads :
             (cevent'.thread = t /\ u # t)
                 => /\ scoped'[u] = scoped[u]
                    /\ dflt'[u] = dflt[u]
                    /\ get(u)' = get(u)]_vars

(* Witness: one thread is inside a with and has a default binding; get()   *)
(* on another thread, which has bound nothing, has just returned nothing.  *)
C33_Witness ==
    \E t, u \in Threads :
        /\ t # u
        /\ scoped[t] = Some("request_a")
        /\ dflt[t] = Some("request_b")
        /\ recent[u].op = "none"
        /\ bound[u] = <<>>
        /\ cevent = Event("get", u, None)


(* C34: the RequestInfo of a request is the scoped binding of the thread   *)
(* while the handler chain is called for it and during every poll of its   *)
(* future; a thread that runs no handler code of a request has no scoped   *)
(* binding; and a report made while a thread runs the handler code of a    *)
(* request carries the RequestInfo of that request, whatever other         *)
(* requests were polled on the thread before.                              *)
C34_BoundDuringPoll ==
    \A t \in Threads :
        /\ InExecutor(t) => scoped[t] = None
        /\ \A q \in RequestInfos :
              tasks[q].thread = t =>
                  /\ scoped[t] = Some(q)
                  /\ get(t) = Some(q)
                  /\ pc[t] \in {"rep_sanitize", "rep_send"}
                     => attempt[t].request = Some(q)

(* Witness: the futures of two requests are with the executor; one of them *)
(* is being polled between polls of the other, and a report made in that   *)
(* poll is about to be sent.                                               *)
C34_Witness ==
    \E t \in Threads :
        /\ tasks["request_a"] = Task("pending", NoThread)
        /\ tasks["request_b"] = Task("poll", t)
        /\ pc[t] = "rep_send"
        /\ attempt[t].request = Some("request_b")


----------------------------------------------------------------------------
(* Malformed traces and frames                                             *)

(* What follows "at " in a location line.                                  *)
Rest(text) == trim_start(SliceFrom(trim(text), Len(S_at)))

Colons(s) == {i \in 1 .. Len(s) : s[i] = ":"}

LastColon(s) == CHOOSE i \in Colons(s) : \A j \in Colons(s) : j <= i

(* C35: a method line followed by a location line gives one entry, with    *)
(* the location split at its rightmost colon into file and line number;    *)
(* the line number is 1 when the text after that colon is no number; the   *)
(* file is all of the location and the line number 1 when there is no      *)
(* colon.                                                                  *)
C35_LocationSplit ==
    (/\ returned.fn = "parse"
     /\ Len(argument.value) = 2
     /\ argument.value[1].kind = "method"
     /\ argument.value[2].kind = "location")
    => LET rest == Rest(argument.value[2].text)
           number == IF Colons(rest) = {} THEN None
                     ELSE parse_u32(SubSeq(rest, LastColon(rest) + 1, Len(rest)))
       IN  /\ Len(returned.value) = 1
           /\ returned.value[1].method = argument.value[1].method
           /\ returned.value[1].file =
                 Some(IF Colons(rest) = {} THEN rest
                      ELSE SubSeq(rest, 1, LastColon(rest) - 1))
           /\ returned.value[1].line =
                 Some(IF number = None THEN 1 ELSE number[1])

(* Witness: the location "a.rs:x" under a method line.                     *)
C35_Witness ==
    /\ returned.fn = "parse"
    /\ argument.value =
          <<FrameLine(0, S_a_f),
            OddLocationLine(S_a_rs \o <<":", "x">>, S_a_rs)>>
    /\ returned.value = <<BacktraceLine(Some(1), Some(S_a_rs), S_a_f)>>


(* The lines that are not empty once the noise is stripped and that do     *)
(* not start with "at ".                                                   *)
NonLocationLines(lines) ==
    {i \in 1 .. Len(lines) :
        /\ Stripped(lines[i]) # <<>>
        /\ ~starts_with(Stripped(lines[i]), S_at)}

(* Those of them that are not the header "stack backtrace:".               *)
MethodLines(lines) ==
    {i \in NonLocationLines(lines) : trim(lines[i]) # S_stack_backtrace}

FirstMethod(lines) ==
    CHOOSE i \in MethodLines(lines) : \A j \in MethodLines(lines) : i <= j

(* C36: parse returns as many entries as the input has method lines, the   *)
(* header "stack backtrace:" not being one; a                              *)
(* location line before the first method line makes no entry and is not    *)
(* given to that method; an input without a method line gives no entry.    *)
C36_OneEntryPerMethodLine ==
    returned.fn = "parse" =>
        LET lines == Texts(argument.value)
        IN  /\ Len(returned.value) = Cardinality(MethodLines(lines))
            /\ MethodLines(lines) = {} => returned.value = <<>>
            /\ MethodLines(lines) # {} =>
                  /\ returned.value[1].method = Stripped(lines[FirstMethod(lines)])
                  /\ (\A j \in FirstMethod(lines) + 1 .. Len(lines) :
                         j \notin MethodLines(lines)
                         => ~starts_with(Stripped(lines[j]), S_at))
                     => returned.value[1].file = None
                        /\ returned.value[1].line = None

(* C36 as stated: the header "stack backtrace:" counts as a method line.   *)
C36_AsStated ==
    returned.fn = "parse" =>
        Len(returned.value) = Cardinality(NonLocationLines(Texts(argument.value)))

(* Witness: a location line, then the only method line.                    *)
C36_Witness ==
    /\ returned.fn = "parse"
    /\ argument.value = <<LocationLine(S_a_rs, 12), FrameLine(0, S_a_f)>>
    /\ returned.value = <<BacktraceLine(None, None, S_a_f)>>


(* What File::open gives for the file of a frame.                          *)
Opened(value, i) == value.disk[value.bt_lines[i].file[1]]

SameFrames(value, entries) ==
    /\ Len(entries) = Len(value.bt_lines)
    /\ \A i \in 1 .. Len(entries) :
          /\ entries[i].method = value.bt_lines[i].method
          /\ entries[i].file = value.bt_lines[i].file

----------------------------------------------------------------------------
(* Configured filter keys                                                  *)

HasDefaultSubstring(key) ==
    IsSubstring(S_password, key) \/ IsSubstring(S_HTTP_AUTHORIZATION, key)

Untouched == {"url", "component", "action", "local_variables"}

(* C38: with filter_keys configured and none of them a substring of a key  *)
(* (the empty list, say), the value under that key is sent as it was, also *)
(* when the key contains "password" or "HTTP_AUTHORIZATION"; url,          *)
(* component, action and local_variables are never changed; sanitizing     *)
(* the result again changes nothing.                                       *)
C38_FilterKeysReplace ==
    returned.fn = "sanitize" =>
        /\ ReadValue.request.filter_keys # None
           => \A n \in SanitizedMaps : \A k \in DOMAIN argument.value[n] :
                 (/\ HasDefaultSubstring(k)
                  /\ \A s \in FilterSubstrings(ReadValue) : ~IsSubstring(s, k))
                 => returned.value[n][k] = argument.value[n][k]
        /\ \A n \in Untouched : returned.value[n] = argument.value[n]
        /\ sanitize(returned.value, ReadValue) = returned.value

(* C38 as stated: the configured list does not have "password" or          *)
(* "HTTP_AUTHORIZATION" among its entries.                                 *)
C38_AsStated ==
    returned.fn = "sanitize" =>
        /\ (/\ ReadValue.request.filter_keys # None
            /\ S_password \notin FilterSubstrings(ReadValue)
            /\ S_HTTP_AUTHORIZATION \notin FilterSubstrings(ReadValue))
           => \A n \in SanitizedMaps : \A k \in DOMAIN argument.value[n] :
                 HasDefaultSubstring(k)
                 => returned.value[n][k] = argument.value[n][k]
        /\ \A n \in Untouched : returned.value[n] = argument.value[n]
        /\ sanitize(returned.value, ReadValue) = returned.value

(* Witness: filter_keys is the empty list and params["my_password"] is     *)
(* sent as it was.                                                         *)
C38_Witness ==
    /\ returned.fn = "sanitize"
    /\ ReadValue.request.filter_keys = Some(<<>>)
    /\ DOMAIN argument.value["params"] = {S_my_password}
    /\ argument.value["params"][S_my_password] = S_v
    /\ returned.value["params"][S_my_password] = S_v
    /\ DOMAIN argument.value["local_variables"] = {S_my_password}
    /\ returned.value["url"] = S_url


----------------------------------------------------------------------------
(* The test collector                                                      *)

IsNotice(c) == conns[c].method = "POST" /\ conns[c].path = "/v1/notices"

Decodes(c) == conns[c].body.kind = "json_object"

(* The payload of the request has been pushed.                             *)
Pushed(c) ==
    \/ conns[c].state = "created"
    \/ conns[c].state = "closed" /\ conns[c].status = 201

Answered(c) == conns[c].state = "closed"

(* C39: the recorded errors hold one entry for every POST to /v1/notices   *)
(* with a decodable body that got as far as the push, and nothing else,    *)
(* whatever requests are served at the same time; such a request is        *)
(* answered 201 with the token of its payload as id when it has one; a     *)
(* request with another method or path is answered 301 or 404 and one with *)
(* an undecodable body 400, and none of those is answered 201.             *)
C39_OneEntryPerNotice ==
    /\ \A p \in {Payload(None)} \cup {Payload(Some(u)) : u \in Uuids} :
          Cardinality({i \in 1 .. Len(error_data.errors) : error_data.errors[i] = p})
              = Cardinality({c \in ConnIds :
                                Pushed(c) /\ from_slice(conns[c].body) = Some(p)})
    /\ \A c \in ConnIds :
          /\ Pushed(c) => IsNotice(c) /\ Decodes(c)
          /\ Answered(c) =>
                /\ IsNotice(c) /\ Decodes(c) =>
                      /\ conns[c].status = 201
                      /\ conns[c].id # None
                      /\ conns[c].body.token # None
                         => conns[c].id = conns[c].body.token
                /\ ~IsNotice(c) => conns[c].status \in {301, 404}
                /\ IsNotice(c) /\ conns[c].body.kind = "text"
                   => conns[c].status = 400

(* Witness: two notices served at the same time; the one with a token was  *)
(* pushed second and has been answered with its token, the other one has   *)
(* been pushed and not yet answered.                                       *)
C39_Witness ==
    /\ error_data.errors = <<Payload(None), Payload(Some("uuid_1"))>>
    /\ conns[1].body = Body("json_object", Some("uuid_1"))
    /\ conns[1].status = 201
    /\ conns[1].id = Some("uuid_1")
    /\ conns[2].state = "created"


(* new has returned.                                                       *)
Made == server.main \in {"idle", "join", "gone"}

(* new returns only when the server thread has bound the address and       *)
(* handed over the server.                                                 *)
NewAfterHandover ==
    Made => server.bound /\ server.thread \in {"wait", "terminated"}

SignalledOnce == server.sends <= 1

(* A shutdown or drop that follows a shutdown returns at once and sends    *)
(* nothing.                                                                *)
SecondShutdownReturns ==
    (/\ server.returned = "shutdown"
     /\ server'.calls = server.calls + 1
     /\ server'.call \in {"shutdown", "drop"})
    => /\ server'.returned = server'.call
       /\ server'.main = After(server'.call)
       /\ server'.sends = server.sends

(* Every request the server has taken is received in full or fails.        *)
BodiesArrive == \A c \in ConnIds : []<>(conns[c].state # "read_body")

(* C40: new returns only after the server thread has bound its address     *)
(* and handed over the server; the server is signalled at most once; when  *)
(* shutdown or drop has returned the server thread has ended, unless its   *)
(* handle was taken by take_shutdown; a shutdown or drop after a shutdown  *)
(* returns at once; and when the requests the server has taken are         *)
(* received or fail, every shutdown and drop returns.                      *)
C40_Lifecycle ==
    /\ [](NewAfterHandover /\ SignalledOnce)
    /\ [](server.returned \in {"shutdown", "drop"}
          => server.thread = "terminated" \/ server.taken)
    /\ [][SecondShutdownReturns]_vars
    /\ BodiesArrive => (server.main = "join" ~> server.main # "join")

(* C40 as stated: shutdown returns only after the server thread has ended, *)
(* and shutdown and drop always return.                                    *)
C40_AsStated ==
    /\ [](NewAfterHandover /\ SignalledOnce)
    /\ [](server.returned \in {"shutdown", "drop"} => server.thread = "terminated")
    /\ [][SecondShutdownReturns]_vars
    /\ server.main = "join" ~> server.main # "join"

(* Witness: a notice was recorded, the server was signalled once, its      *)
(* thread was joined, and the drop has returned.                           *)
C40_Witness ==
    /\ server.main = "gone"
    /\ server.returned = "drop"
    /\ server.calls = 2
    /\ server.sends = 1
    /\ ~server.taken
    /\ server.thread = "terminated"
    /\ Len(error_data.errors) = 1

====
